---- MODULE Spec2Model ----
(***************************************************************************)
(* A model of the conversation pipeline of the "Ryadom" bot:               *)
(* handle_message (app/bot/handlers/chat.py), MemoryManager                *)
(* (app/core/memory.py), the repositories (app/db/repository.py) and the   *)
(* session scope of DatabaseMiddleware (app/bot/middlewares/database.py).  *)
(*                                                                         *)
(* Each incoming message is handled by one task.  A task runs the handler  *)
(* step by step; every step ends at an await on the completion service or *)
(* on the transport, where other tasks may run.  Nothing in the source     *)
(* serialises the tasks of one user.                                       *)
(*                                                                         *)
(* The store: every table is a set of rows.  A row carries the tag tx:     *)
(* 0 once its transaction is committed, otherwise the task whose session   *)
(* flushed it.  A session reads the committed rows and its own.  Updates   *)
(* of existing rows are applied in place and remembered in the task's undo *)
(* set, which a rollback restores.                                         *)
(*                                                                         *)
(* created_at is the server's now() (models.py:144, server_default).  In   *)
(* PostgreSQL that is the instant the transaction began, so the rows a     *)
(* turn inserts carry the same created_at (with SQLite's CURRENT_TIMESTAMP *)
(* they do whenever they fall into the same second).  Here created_at is   *)
(* the number of the turn.  ORDER BY created_at leaves the order of rows   *)
(* with equal created_at open: a query returns any of the possible orders. *)
(***************************************************************************)
EXTENDS Integers, Sequences, FiniteSets, TLC

----------------------------------------------------------------------------
(* Bounds of the model.  The thresholds and limits of the source          *)
(* (SUMMARY_THRESHOLD = 50, the window of 100, free_messages_per_day = 10, *)
(* basic_messages_per_day = 100) are scaled down so that the runs stay     *)
(* finite and short; the code only compares counts against them.           *)

Users == {1, 2}
Tasks == {1, 2}

\* A run is bounded by what its environment may still do (the variable
\* left): turns started, days the clock advances, mood inferences that
\* return a result, extractions that return a result, and failures of a
\* collaborator (completion service, transport).  Long runs are plain,
\* short runs are rich; runs with concurrent tasks are shorter than runs
\* that handle one update at a time.
MaxTurns == 4
MaxDay == 1
MaxFaults == 1
ShortTurns == 2
MaxMoods == 1
MaxExtractions == 2
\* turns of a run with concurrent tasks
MaxConcTurns == 3

\* memory.py:43 (50 in the source)
SUMMARY_THRESHOLD == 3
\* memory.py:482, get_recent(user_id, limit=100)
SummaryWindow == 6
\* memory.py:494, "if len(messages) < 10"
MinSummaryMessages == 2
\* config.py:36 (10 in the source) and config.py:37 (100 in the source)
free_messages_per_day == 2
basic_messages_per_day == 3
premium_messages_per_day == 4
\* scheduler.py:97-98: days without activity before a check-in (3 in the source)
min_days == 1
\* turns of a run that only asks for the account status
MaxStatusTurns == 2
\* items of the extraction of a turn that is merged item by item
MaxItems == 4
\* turns and extracted facts of a run that follows the context assembly
MaxContextTurns == 2
MaxContextItems == 2
\* requests to the completion service in a run that follows the requests
MaxRequests == 2
\* claude.py:57: attempts of a request
max_retries == 3
\* claude.py:132: the wait after a 429 without a retry-after header
DefaultRetryAfter == 5
\* memory.py:338: the horizon of the upcoming dates, in days
UpcomingDays == 14
\* calls of get_upcoming_dates in a run that follows them
MaxDateCalls == 2

----------------------------------------------------------------------------
(* Texts are sequences of characters; str.lower and the "in" substring     *)
(* test are computed on them.                                              *)

NoText == << >>

Lower(c) == IF c = "A" THEN "a" ELSE IF c = "B" THEN "b" ELSE c

Upper(c) == IF c = "a" THEN "A" ELSE IF c = "b" THEN "B" ELSE c

ToLower(s) == [i \in DOMAIN s |-> Lower(s[i])]

\* str.capitalize
Capitalize(s) == [i \in DOMAIN s |-> IF i = 1 THEN Upper(s[i]) ELSE Lower(s[i])]

\* Python's  needle in hay
Contains(hay, needle) ==
    \E i \in 0..(Len(hay) - Len(needle)) :
        SubSeq(hay, i + 1, i + Len(needle)) = needle

\* the ids of a set of rows
Ids(rows) == {r.id : r \in rows}

\* the row of a table with a given id
RowById(rows, id) == CHOOSE r \in rows : r.id = id

SeqToSet(s) == {s[i] : i \in DOMAIN s}

----------------------------------------------------------------------------
VARIABLES
    messages,            \* Message rows
    memories,            \* Memory rows
    persons,             \* Person rows
    events,              \* LifeEvent rows
    moods,               \* MoodEntry rows
    summaries,           \* ConversationSummary rows
    users,               \* User rows, by user id
    subscriptions,       \* Subscription rows, by user id
    next_id,             \* the autoincrement counters of the tables
    admin_telegram_ids,  \* settings.admin_telegram_ids
    today,               \* the current UTC day
    task,                \* the handler tasks: position and locals
    undo,                \* per task: the rows its session has updated, as they were
    alerts,              \* crisis alerts sent to admins
    turns,               \* turns started so far
    left,                \* what the environment may still do in this run
    serial,              \* TRUE when the transport delivers one update at a time
    skipped,             \* users whose last summarization call gave nothing
    clock,               \* the time of the runs that follow the middleware (in
                         \* seconds) or the follow-up job (in hours)
    memory_store,        \* RateLimitMiddleware._memory_store
    trace,               \* what the middleware and the jobs let through or sent
    payments             \* Payment rows

vars == <<messages, memories, persons, events, moods, summaries, users,
          subscriptions, next_id, admin_telegram_ids, today, task, undo,
          alerts, turns, left, serial, skipped, clock, memory_store, trace,
          payments>>

\* memory.py:169: the counts _extract_all_memories starts from
NoCounts == [facts |-> 0, persons |-> 0, events |-> 0, updates |-> 0]

\* no mood entry: current_mood of the payload is None
NoMood == [mood_score |-> -1, primary_emotion |-> "none", emotional_need |-> "none"]

\* no request to the completion service is in progress
NoRequest == [attempt |-> 0, waited |-> << >>, last_error |-> "none",
              raised |-> "none", statuses |-> << >>, status_code |-> -1,
              retryable |-> FALSE]

Idle == [pc |-> "idle", user |-> 0, turn |-> 0, counts |-> NoCounts,
         request |-> NoRequest, upcoming |-> << >>,
         requires_attention |-> FALSE, attention_reason |-> "none",
         extraction_invoked |-> FALSE, reply |-> "none", window |-> << >>,
         relevant_memories |-> {},
         mood_detected |-> FALSE, called |-> {}, daily_limit |-> 0,
         current_mood |-> NoMood]

NoUndo == [memories |-> {}, persons |-> {}, users |-> {}]

\* the rows a session sees: the committed ones and its own
Visible(rows, t) == {r \in rows : r.tx = 0 \/ r.tx = t}

\* an update is given to the first task that is free (the names of the
\* tasks carry no meaning)
FirstFree(t) == task[t].pc = "idle" /\ \A o \in Tasks : o < t => task[o].pc # "idle"
----------------------------------------------------------------------------
(* MessageRepository *)

\* MessageRepository.save: INSERT and flush.  day is the UTC day of
\* created_at; content is the kind of text that is stored.
MessageSave(msgs, id, u, role, content, day, created_at, t) ==
    msgs \cup {[id |-> id, user_id |-> u, role |-> role, content |-> content,
                day |-> day, created_at |-> created_at, is_summarized |-> FALSE,
                tx |-> t]}

\* the results ORDER BY created_at DESC LIMIT n can give on a set of rows, as
\* sequences of ids
RECURSIVE NewestFirst(_, _)
NewestFirst(rows, n) ==
    IF n = 0 \/ rows = {} THEN {<< >>}
    ELSE UNION {{<<r.id>> \o rest : rest \in NewestFirst(rows \ {r}, n - 1)} :
                r \in {x \in rows : \A y \in rows : x.created_at >= y.created_at}}

\* list(reversed(...))
Reverse(s) == [i \in DOMAIN s |-> s[Len(s) + 1 - i]]

\* MessageRepository.get_recent: the results the query can give, each the
\* ids of the last `limit` messages of the user in chronological order
MessageGetRecent(msgs, u, limit, t) ==
    {Reverse(s) : s \in NewestFirst({m \in Visible(msgs, t) : m.user_id = u}, limit)}

\* MessageRepository.get_messages_count_today
get_messages_count_today(msgs, u, day, t) ==
    Cardinality({m \in Visible(msgs, t) :
                    m.user_id = u /\ m.role = "user" /\ m.day >= day})

\* a variant of the flag update that also replaces the text of the messages
mark_as_folded(msgs, ids) ==
    {IF m.id \in ids THEN [m EXCEPT !.is_summarized = TRUE, !.content = "folded"]
     ELSE m : m \in msgs}

\* MessageRepository.mark_as_summarized
mark_as_summarized(msgs, ids) ==
    {IF m.id \in ids THEN [m EXCEPT !.is_summarized = TRUE] ELSE m : m \in msgs}

(* SubscriptionRepository *)

\* repository.py:44-48, the subscription a new user gets
FreeSubscription ==
    [plan |-> "free", status |-> "active", started_at |-> -1, expires_at |-> -1]

\* repository.py:560-563, after an upgrade to basic that runs out after day 0
BasicSubscription ==
    [plan |-> "basic", status |-> "active", started_at |-> 0, expires_at |-> 0]

\* get_by_user_id found no row
NoSubscription ==
    [plan |-> "none", status |-> "none", started_at |-> -1, expires_at |-> -1]

\* models.py:26-38: the values of Subscription.plan and Subscription.status
SubscriptionPlan == {"free", "basic", "premium"}
SubscriptionStatus == {"active", "cancelled", "expired", "pending"}

\* the limits of repository.py:614-619
PlanLimit(plan) ==
    IF plan = "basic" THEN basic_messages_per_day
    ELSE IF plan = "premium" THEN premium_messages_per_day
    ELSE free_messages_per_day

\* a variant of get_plan_limit that does not look at expires_at
get_plan_limit_unexpired(sub, day) ==
    IF sub = NoSubscription THEN free_messages_per_day
    ELSE IF sub.status # "active" THEN free_messages_per_day
    ELSE PlanLimit(sub.plan)

\* SubscriptionRepository.get_plan_limit; expires_at = -1 stands for NULL
get_plan_limit(sub, day) ==
    IF sub = NoSubscription THEN free_messages_per_day
    ELSE IF sub.status # "active" THEN free_messages_per_day
    ELSE IF sub.expires_at # -1 /\ sub.expires_at < day THEN free_messages_per_day
    ELSE PlanLimit(sub.plan)

----------------------------------------------------------------------------
(* The state after start-up: empty tables; the users exist (created by    *)
(* /start) and have not told their name yet.                               *)

InitStore ==
    /\ messages = {}
    /\ memories = {}
    /\ persons = {}
    /\ events = {}
    /\ moods = {}
    /\ summaries = {}
    /\ users = [u \in Users |-> [name |-> NoText, last_active_at |-> -1]]
    /\ subscriptions = [u \in Users |-> IF u = 1 THEN FreeSubscription
                                       ELSE BasicSubscription]
    /\ next_id = [messages |-> 1, memories |-> 1, persons |-> 1, events |-> 1,
                  moods |-> 1, summaries |-> 1]
    /\ admin_telegram_ids \in {{}, {2}}
    /\ today = 0
    /\ task = [t \in Tasks |-> Idle]
    /\ undo = [t \in Tasks |-> NoUndo]
    /\ alerts = {}
    /\ turns = 0
    /\ skipped = {}
    /\ clock = 0
    /\ memory_store = [u \in Users |-> << >>]
    /\ trace = {}
    /\ payments = {}

LongRun == [turns |-> MaxTurns, days |-> MaxDay, moods |-> 0,
            extractions |-> 0, faults |-> MaxFaults]

ShortRun == [turns |-> ShortTurns, days |-> MaxDay, moods |-> MaxMoods,
             extractions |-> MaxExtractions, faults |-> MaxFaults]

ConcRun == [turns |-> MaxConcTurns, days |-> 0, moods |-> 0,
            extractions |-> 0, faults |-> 0]

ConcShortRun == [ShortRun EXCEPT !.extractions = 1]

\* updates are handled as concurrent tasks (aiogram's dispatcher)
Init == InitStore /\ serial = FALSE /\ left \in {ConcRun, ConcShortRun}

\* one update is handled at a time
InitSeq == InitStore /\ serial = TRUE /\ left \in {LongRun, ShortRun}

----------------------------------------------------------------------------
(* DatabaseMiddleware: the session of a task is committed when the handler *)
(* returns and rolled back when it raises.                                 *)

Committed(rows, t) == {IF r.tx = t THEN [r EXCEPT !.tx = 0] ELSE r : r \in rows}

\* the rows of a table after a rollback: the session's inserts are gone and
\* the rows it updated are as they were
RolledBack(rows, old, t) ==
    {IF \E o \in old : o.id = r.id THEN RowById(old, r.id) ELSE r :
        r \in {x \in rows : x.tx # t}}

Commit(t) ==
    /\ task[t].pc = "commit"
    /\ messages' = Committed(messages, t)
    /\ memories' = Committed(memories, t)
    /\ persons' = Committed(persons, t)
    /\ events' = Committed(events, t)
    /\ moods' = Committed(moods, t)
    /\ summaries' = Committed(summaries, t)
    /\ task' = [task EXCEPT ![t] = Idle]
    /\ undo' = [undo EXCEPT ![t] = NoUndo]
    /\ UNCHANGED <<users, subscriptions, next_id, admin_telegram_ids, today,
                   alerts, turns, left, serial, skipped,
                   clock, memory_store, trace, payments>>

\* what a rollback of the session's transaction does to the tables
SessionRollback(t) ==
    /\ messages' = {m \in messages : m.tx # t}
    /\ memories' = RolledBack(memories, undo[t].memories, t)
    /\ persons' = RolledBack(persons, undo[t].persons, t)
    /\ events' = {e \in events : e.tx # t}
    /\ moods' = {m \in moods : m.tx # t}
    /\ summaries' = {s \in summaries : s.tx # t}
    /\ users' = [u \in Users |->
                    IF \E o \in undo[t].users : o.id = u
                    THEN [name |-> RowById(undo[t].users, u).name,
                          last_active_at |-> RowById(undo[t].users, u).last_active_at]
                    ELSE users[u]]
    /\ undo' = [undo EXCEPT ![t] = NoUndo]

Rollback(t) ==
    /\ task[t].pc = "raise"
    /\ SessionRollback(t)
    /\ task' = [task EXCEPT ![t] = Idle]
    /\ UNCHANGED <<subscriptions, next_id, admin_telegram_ids, today,
                   alerts, turns, left, serial, skipped,
                   clock, memory_store, trace, payments>>

\* remember a user row before the session's first update of it
UndoUser(un, u) ==
    IF \E o \in un.users : o.id = u THEN un
    ELSE [un EXCEPT !.users = @ \cup {[id |-> u, name |-> users[u].name,
                                        last_active_at |-> users[u].last_active_at]}]
----------------------------------------------------------------------------
(* MemoryRepository.  memory_key = "none" and last_accessed_at = -1 stand   *)
(* for NULL.                                                               *)

\* MemoryRepository.add: always an INSERT of a current row
MemoryAdd(mems, id, u, f, created_at, t) ==
    mems \cup {[id |-> id, user_id |-> u, fact |-> f.fact,
                memory_key |-> f.memory_key, importance |-> f.importance,
                history |-> << >>, is_current |-> TRUE,
                tags |-> f.tags, last_accessed_at |-> -1,
                created_at |-> created_at, tx |-> t]}

\* the current rows of the user that the session sees
CurrentMemories(mems, u, t) ==
    {m \in Visible(mems, t) : m.user_id = u /\ m.is_current}

\* MemoryRepository.get_by_key: scalar_one_or_none() returns the row, None
\* (id 0), or raises MultipleResultsFound (id -1) when several rows match
MemoryGetByKey(mems, u, key, t) ==
    LET found == {m \in CurrentMemories(mems, u, t) : m.memory_key = key}
    IN  IF found = {} THEN 0
        ELSE IF Cardinality(found) = 1 THEN (CHOOSE m \in found : TRUE).id
        ELSE -1

\* the first row of get_all's order: importance desc, created_at desc (the
\* extractions of the model give the facts of one turn different importance)
FirstMemory(rows) ==
    CHOOSE m \in rows : \A o \in rows :
        \/ m.importance > o.importance
        \/ m.importance = o.importance /\ m.created_at >= o.created_at

\* MemoryRepository.search_by_text, first match (matches[0]); 0 when none
MemorySearchFirst(mems, u, text, t) ==
    LET matching == {m \in CurrentMemories(mems, u, t) :
                        Contains(ToLower(m.fact), ToLower(text))}
    IN  IF matching = {} THEN 0 ELSE FirstMemory(matching).id

\* What MemoryRepository.update_memory leaves in the row.  The method appends
\* to the list it read from memory.history and assigns that same list back;
\* the column is a plain JSON column (models.py:181), so the unit of work
\* sees an unchanged value and writes history only when the row had none
\* ("memory.history or []" then builds a new list).
UpdatedHistory(history, old_fact) ==
    IF history = << >> THEN <<old_fact>> ELSE history

\* MemoryRepository.update_memory
update_memory(mems, memory_id, new_fact, old_fact) ==
    {IF m.id = memory_id
     THEN [m EXCEPT !.fact = new_fact,
                    !.history = UpdatedHistory(m.history, old_fact)]
     ELSE m : m \in mems}

\* remember a row before the session's first update of it
UndoRow(old, rows, id, t) ==
    IF (\E o \in old : o.id = id) \/ RowById(rows, id).tx = t THEN old
    ELSE old \cup {RowById(rows, id)}

(* PersonRepository.  notes = NoText and emotional_tone = "null" stand for  *)
(* None; important_dates is the list of the items of the dict, empty for   *)
(* None (the resolver passes none, memory.py:211-217).                     *)

PersonAdd(prs, id, u, p, created_at, t) ==
    prs \cup {[id |-> id, user_id |-> u, name |-> p.name, notes |-> p.notes,
               emotional_tone |->
                   IF p.emotional_tone = "absent" THEN "neutral" ELSE p.emotional_tone,
               important_dates |-> << >>,
               is_active |-> TRUE, created_at |-> created_at, tx |-> t]}

\* PersonRepository.get_by_name: the first active person, newest first, whose
\* lower-cased name contains the lower-cased argument; 0 when none
PersonGetByName(prs, u, name, t) ==
    LET matching == {p \in Visible(prs, t) :
                        /\ p.user_id = u /\ p.is_active
                        /\ Contains(ToLower(p.name), ToLower(name))}
    IN  IF matching = {} THEN 0
        ELSE (CHOOSE p \in matching :
                 \A o \in matching : p.created_at >= o.created_at).id

\* PersonRepository.update as called by the resolver (memory.py:204-208)
PersonUpdate(prs, person_id, p) ==
    LET tone == IF p.emotional_tone = "absent" THEN "neutral" ELSE p.emotional_tone
    IN  {IF r.id = person_id
         THEN [r EXCEPT !.notes = IF p.notes # NoText THEN p.notes ELSE @,
                        !.emotional_tone = IF tone # "null" THEN tone ELSE @]
         ELSE r : r \in prs}

(* LifeEventRepository.  A date string is the sequence of its numbers      *)
(* (year, month, day); NoText when the event carries none.                 *)

DaysInMonth(y, m) ==
    IF m \in {4, 6, 9, 11} THEN 30
    ELSE IF m # 2 THEN 31
    ELSE IF (y % 4 = 0 /\ y % 100 # 0) \/ y % 400 = 0 THEN 29 ELSE 28

\* datetime.strptime(s, "%Y-%m-%d") succeeds
StrptimeOk(s) ==
    /\ Len(s) = 3
    /\ s[1] \in 1..9999
    /\ s[2] \in 1..12
    /\ s[3] \in 1..DaysInMonth(s[1], s[2])

\* a variant of the insert that stores the date of the item as it came
LifeEventAddRaw(evs, id, u, e, event_date, related_person_id, t) ==
    evs \cup {[id |-> id, user_id |-> u, title |-> e.title,
               event_date |-> e.event_date,
               related_person_id |-> related_person_id, tx |-> t]}

\* LifeEventRepository.add
LifeEventAdd(evs, id, u, e, event_date, related_person_id, t) ==
    evs \cup {[id |-> id, user_id |-> u, title |-> e.title,
               event_date |-> event_date,
               related_person_id |-> related_person_id, tx |-> t]}
----------------------------------------------------------------------------
(* MemoryManager._extract_all_memories: the merge of an extraction into    *)
(* the store (memory.py:168-299).  The state st of the merge holds the     *)
(* tables, the counters, the undo set of the session, the counts and the   *)
(* created_at of the rows it inserts (now).                                *)

\* MemoryManager._extract_name_from_fact: the first run of two or more
\* letters, capitalised (a text of the model is one run of letters)
ExtractNameFromFact(fact) == IF Len(fact) >= 2 THEN Capitalize(fact) ELSE NoText

\* UserRepository.update_name inside the merge
MergeUpdateName(st, u, name) ==
    [st EXCEPT !.users = [@ EXCEPT ![u].name = name],
               !.undo = IF \E o \in @.users : o.id = u THEN @
                        ELSE [@ EXCEPT !.users = @ \cup
                                 {[id |-> u, name |-> st.users[u].name,
                                   last_active_at |-> st.users[u].last_active_at]}]]

\* memory.py:171-193, one fact
ProcessFact(st, f, u, t) ==
    LET name == ExtractNameFromFact(f.fact)
        named == IF f.memory_key = "user_name" /\ name # NoText
                 THEN MergeUpdateName(st, u, name) ELSE st
    IN  [named EXCEPT
            !.memories = MemoryAdd(@, st.next_id.memories, u, f, st.now, t),
            !.next_id = [@ EXCEPT !.memories = @ + 1],
            !.counts = [@ EXCEPT !.facts = @ + 1]]

\* memory.py:202-220, one person, given what get_by_name returned
ProcessPersonAs(st, p, u, t, existing) ==
        IF existing # 0
        THEN [st EXCEPT
                !.undo = [@ EXCEPT !.persons = UndoRow(@, st.persons, existing, t)],
                !.persons = PersonUpdate(@, existing, p),
                !.counts = [@ EXCEPT !.persons = @ + 1]]
        ELSE [st EXCEPT
                !.persons = PersonAdd(@, st.next_id.persons, u, p, st.now, t),
                !.next_id = [@ EXCEPT !.persons = @ + 1],
                !.counts = [@ EXCEPT !.persons = @ + 1]]

\* memory.py:196-220, one person
ProcessPerson(st, p, u, t) ==
    ProcessPersonAs(st, p, u, t, PersonGetByName(st.persons, u, p.name, t))

\* memory.py:225-253, one event, given what get_by_name returned (0 when it
\* was not called or found nothing)
ProcessEventAs(st, e, u, t, related_person_id) ==
    LET event_date == IF e.event_date # NoText /\ StrptimeOk(e.event_date)
                      THEN e.event_date ELSE NoText
    IN  [st EXCEPT
            !.events = LifeEventAdd(@, st.next_id.events, u, e, event_date,
                                    related_person_id, t),
            !.next_id = [@ EXCEPT !.events = @ + 1],
            !.counts = [@ EXCEPT !.events = @ + 1]]

\* memory.py:223-256, one event
ProcessEvent(st, e, u, t) ==
    ProcessEventAs(st, e, u, t,
                   IF e.related_person # NoText
                   THEN PersonGetByName(st.persons, u, e.related_person, t)
                   ELSE 0)

\* memory.py:262-274: the row an update is applied to; 0 when there is none,
\* -1 when get_by_key raises (the exception is caught at memory.py:289)
UpdateTarget(mems, up, u, t) ==
    LET by_key == IF up.memory_key # "none"
                  THEN MemoryGetByKey(mems, u, up.memory_key, t) ELSE 0
    IN  IF by_key # 0 THEN by_key
        ELSE IF up.old_fact_contains # NoText
        THEN MemorySearchFirst(mems, u, up.old_fact_contains, t)
        ELSE 0

\* memory.py:262-270: the lookups an update makes
UpdateLookups(mems, up, u, t) ==
    (IF up.memory_key # "none" THEN {"get_by_key"} ELSE {})
    \cup (IF /\ (up.memory_key = "none"
                  \/ MemoryGetByKey(mems, u, up.memory_key, t) = 0)
              /\ up.old_fact_contains # NoText
           THEN {"search_by_text"} ELSE {})

\* a variant of the update step that counts an update that found no fact
ProcessUpdateCounted(st, up, u, t) ==
    LET memory_id == UpdateTarget(st.memories, up, u, t)
    IN  IF memory_id > 0
        THEN [st EXCEPT
                !.undo = [@ EXCEPT !.memories = UndoRow(@, st.memories, memory_id, t)],
                !.memories = update_memory(@, memory_id, up.new_fact,
                                           RowById(st.memories, memory_id).fact),
                !.counts = [@ EXCEPT !.updates = @ + 1]]
        ELSE [st EXCEPT !.counts = [@ EXCEPT !.updates = @ + 1]]

\* memory.py:259-290, one update
ProcessUpdate(st, up, u, t) ==
    LET memory_id == UpdateTarget(st.memories, up, u, t)
    IN  IF memory_id > 0
        THEN [st EXCEPT
                !.undo = [@ EXCEPT !.memories = UndoRow(@, st.memories, memory_id, t)],
                !.memories = update_memory(@, memory_id, up.new_fact,
                                           RowById(st.memories, memory_id).fact),
                !.counts = [@ EXCEPT !.updates = @ + 1]]
        ELSE st

RECURSIVE ProcessFacts(_, _, _, _)
ProcessFacts(st, items, u, t) ==
    IF items = << >> THEN st
    ELSE ProcessFacts(ProcessFact(st, Head(items), u, t), Tail(items), u, t)

RECURSIVE ProcessPersons(_, _, _, _)
ProcessPersons(st, items, u, t) ==
    IF items = << >> THEN st
    ELSE ProcessPersons(ProcessPerson(st, Head(items), u, t), Tail(items), u, t)

RECURSIVE ProcessEvents(_, _, _, _)
ProcessEvents(st, items, u, t) ==
    IF items = << >> THEN st
    ELSE ProcessEvents(ProcessEvent(st, Head(items), u, t), Tail(items), u, t)

RECURSIVE ProcessUpdates(_, _, _, _)
ProcessUpdates(st, items, u, t) ==
    IF items = << >> THEN st
    ELSE ProcessUpdates(ProcessUpdate(st, Head(items), u, t), Tail(items), u, t)


\* the four lists in the order of the source: facts, persons, events, updates
MergeExtraction(st, ex, u, t) ==
    ProcessUpdates(
        ProcessEvents(
            ProcessPersons(
                ProcessFacts(st, ex.facts, u, t),
                ex.persons, u, t),
            ex.events, u, t),
        ex.updates, u, t)
----------------------------------------------------------------------------
(* The inputs of a turn.                                                   *)

\* the text of an incoming message
MessageTexts == { <<"a">>, <<"A", "b">> }

\* chat.py:37-63 extract_name: the first word longer than one character,
\* capitalised; None when there is none (a text of the model is one word)
extract_name(text) == IF Len(text) <= 1 THEN NoText ELSE Capitalize(text)

\* chat.py:143, the name used when none is found
DefaultName == <<"D">>

\* what ClaudeClient.detect_mood returns when the call and the parse succeed
\* memory.py:102: the score stored when the inference names none
DefaultMoodScore == 5
\* memory.py:343: the days of mood history of the payload
MoodHistoryDays == 7

MoodResults ==
    { [requires_attention |-> FALSE, crisis_indicators |-> "none",
       mood_score |-> 7, primary_emotion |-> "joy", emotional_need |-> "share"],
      [requires_attention |-> TRUE,  crisis_indicators |-> "ind",
       mood_score |-> 1, primary_emotion |-> "despair",
       emotional_need |-> "support"] }

\* a fact of the extraction with tags
TaggedFact(fact, key, importance, tags) ==
    [fact |-> fact, memory_key |-> key, importance |-> importance, tags |-> tags]

Fact(fact, key, importance) == TaggedFact(fact, key, importance, {})

FactUpdate(key, contains, new_fact) ==
    [memory_key |-> key, old_fact_contains |-> contains, new_fact |-> new_fact]

PersonData(name, notes, tone) ==
    [name |-> name, notes |-> notes, emotional_tone |-> tone]

EventData(title, event_date, related_person) ==
    [title |-> title, event_date |-> event_date, related_person |-> related_person]

\* what extract_full_memory returns when it returns a result: new facts with
\* a correction by key and one that matches nothing; corrections by key and
\* by text alone; a name, persons and events
Extractions ==
    { [facts |-> << Fact(<<"a", "b">>, "job", 5), Fact(<<"a">>, "none", 7) >>,
       persons |-> << >>, events |-> << >>,
       updates |-> << FactUpdate("job", NoText, <<"b">>),
                      FactUpdate("pet", <<"b", "b">>, <<"b">>) >>],
      [facts |-> << >>, persons |-> << >>, events |-> << >>,
       updates |-> << FactUpdate("job", NoText, <<"a", "b">>),
                      FactUpdate("none", <<"A">>, <<"a", "a">>) >>],
      [facts |-> << Fact(<<"i", "g">>, "user_name", 5) >>,
       persons |-> << PersonData(<<"M", "a">>, <<"n">>, "warm"),
                      PersonData(<<"m">>, NoText, "null") >>,
       events |-> << EventData(<<"e">>, <<2025, 2, 30>>, <<"a">>),
                     EventData(<<"e">>, <<2025, 3, 1>>, <<"z">>) >>,
       updates |-> << >>] }

----------------------------------------------------------------------------
(* handle_message, step by step (chat.py:83-292).                          *)

\* a variant of the comparison of chat.py:126 that is off by one
QuotaExceededStrict(messages_today, daily_limit) == messages_today > daily_limit

\* chat.py:126
QuotaExceeded(messages_today, daily_limit) == messages_today >= daily_limit

\* chat.py:97-150: the quota check and, when the message passes it, the save
\* of the user's message and the onboarding of a user without a name
HandleMessage(t, u, text) ==
    /\ FirstFree(t)
    /\ left.turns > 0
    /\ serial => \A o \in Tasks : task[o].pc = "idle"
    /\ turns' = turns + 1
    /\ left' = [left EXCEPT !.turns = @ - 1]
    /\ LET is_admin == u \in admin_telegram_ids
           daily_limit == get_plan_limit(subscriptions[u], today)
           messages_today == get_messages_count_today(messages, u, today, t)
           name == IF extract_name(text) = NoText THEN DefaultName
                   ELSE extract_name(text)
       IN  IF ~is_admin /\ QuotaExceeded(messages_today, daily_limit)
           THEN /\ task' = [task EXCEPT ![t] =
                        [Idle EXCEPT !.pc = "blocked", !.user = u,
                                     !.turn = turns + 1]]
                /\ UNCHANGED <<messages, next_id, users, undo>>
           ELSE /\ task' = [task EXCEPT ![t] =
                        [Idle EXCEPT !.pc = "mood", !.user = u,
                                     !.turn = turns + 1]]
                /\ messages' = MessageSave(messages, next_id.messages, u, "user",
                                           "text", today, turns + 1, t)
                /\ next_id' = [next_id EXCEPT !.messages = @ + 1]
                /\ IF users[u].name = NoText
                   THEN /\ users' = [users EXCEPT ![u].name = name]
                        /\ undo' = [undo EXCEPT ![t] = UndoUser(@, u)]
                   ELSE UNCHANGED <<users, undo>>
    /\ UNCHANGED <<memories, persons, events, moods, summaries, subscriptions,
                   admin_telegram_ids, today, alerts, serial, skipped,
                   clock, memory_store, trace, payments>>

\* a variant of the blocked branch that records the notice as an assistant
\* message, as cmd_start records its greeting
BlockedAnswerSaved(t, delivered) ==
    /\ task[t].pc = "blocked"
    /\ ~delivered => left.faults > 0
    /\ task' = [task EXCEPT ![t].pc = IF delivered THEN "commit" ELSE "raise",
                            ![t].reply = "limit"]
    /\ left' = [left EXCEPT !.faults = IF delivered THEN @ ELSE @ - 1]
    /\ messages' = MessageSave(messages, next_id.messages, task[t].user,
                               "assistant", "limit", today, task[t].turn, t)
    /\ next_id' = [next_id EXCEPT !.messages = @ + 1]
    /\ UNCHANGED <<memories, persons, events, moods, summaries, users,
                   subscriptions, admin_telegram_ids, today, undo,
                   alerts, turns, serial, skipped,
                   clock, memory_store, trace, payments>>

\* chat.py:127-132: the notice of a blocked message; the handler returns, or
\* raises when the transport fails
BlockedAnswer(t, delivered) ==
    /\ task[t].pc = "blocked"
    /\ ~delivered => left.faults > 0
    /\ task' = [task EXCEPT ![t].pc = IF delivered THEN "commit" ELSE "raise",
                            ![t].reply = "limit"]
    /\ left' = [left EXCEPT !.faults = IF delivered THEN @ ELSE @ - 1]
    /\ UNCHANGED <<messages, memories, persons, events, moods, summaries, users,
                   subscriptions, next_id, admin_telegram_ids, today, undo,
                   alerts, turns, serial, skipped,
                   clock, memory_store, trace, payments>>

\* a variant of the mood step that treats a failed inference as an alarm
DetectMoodNoneAlarm(t) ==
    /\ task[t].pc = "mood"
    /\ task' = [task EXCEPT ![t].pc = "extract",
                            ![t].called = @ \cup {"detect_mood"},
                            ![t].requires_attention = TRUE]
    /\ UNCHANGED <<messages, memories, persons, events, moods, summaries, users,
                   subscriptions, next_id, admin_telegram_ids, today, undo,
                   alerts, turns, left, serial, skipped,
                   clock, memory_store, trace, payments>>

\* memory.py:96-97 and claude.py:286-300: the request failed (ClaudeAPIError)
\* or its text is not JSON (JSONDecodeError); detect_mood returned None
DetectMoodNone(t) ==
    /\ task[t].pc = "mood"
    /\ task' = [task EXCEPT ![t].pc = "extract",
                            ![t].called = @ \cup {"detect_mood"}]
    /\ UNCHANGED <<messages, memories, persons, events, moods, summaries, users,
                   subscriptions, next_id, admin_telegram_ids, today, undo,
                   alerts, turns, left, serial, skipped,
                   clock, memory_store, trace, payments>>

\* memory.py:93-124: detect_mood returned a result; the MoodEntry is saved
DetectMood(t, mood_data) ==
    /\ task[t].pc = "mood"
    /\ left.moods > 0
    /\ left' = [left EXCEPT !.moods = @ - 1]
    /\ moods' = moods \cup {[id |-> next_id.moods, user_id |-> task[t].user,
                             mood_score |-> IF mood_data.mood_score = -1
                                            THEN DefaultMoodScore
                                            ELSE mood_data.mood_score,
                             primary_emotion |-> mood_data.primary_emotion,
                             emotional_need |-> mood_data.emotional_need,
                             requires_attention |-> mood_data.requires_attention,
                             day |-> today, created_at |-> task[t].turn,
                             at |-> clock, tx |-> t]}
    /\ next_id' = [next_id EXCEPT !.moods = @ + 1]
    /\ task' = [task EXCEPT
                  ![t].pc = "extract",
                  ![t].mood_detected = TRUE,
                  ![t].called = @ \cup {"detect_mood"},
                  ![t].requires_attention = mood_data.requires_attention,
                  ![t].attention_reason =
                      IF mood_data.requires_attention
                      THEN mood_data.crisis_indicators ELSE "none"]
    /\ UNCHANGED <<messages, memories, persons, events, summaries, users,
                   subscriptions, admin_telegram_ids, today, undo, alerts,
                   turns, serial, skipped,
                   clock, memory_store, trace, payments>>

\* the fixed text of the crisis response (prompts.get_crisis_response)
get_crisis_response == "crisis"

\* a variant of the branch of chat.py:159 that never takes the crisis branch
AfterProcessNormal(t) == "reply"

\* chat.py:159: where the handler goes after process_message
AfterProcess(t) == IF task[t].requires_attention THEN "crisis" ELSE "reply"

\* memory.py:127 and 143-166: extraction is called after the mood step of
\* every turn; here it returned nothing
ExtractNone(t) ==
    /\ task[t].pc = "extract"
    /\ task' = [task EXCEPT ![t].pc = AfterProcess(t),
                            ![t].extraction_invoked = TRUE,
                            ![t].called = @ \cup {"extract_full_memory"}]
    /\ UNCHANGED <<messages, memories, persons, events, moods, summaries, users,
                   subscriptions, next_id, admin_telegram_ids, today, undo,
                   alerts, turns, left, serial, skipped,
                   clock, memory_store, trace, payments>>

\* memory.py:127 and 143-299: extraction returned a result, which is merged
ExtractAllMemories(t, ex) ==
    /\ task[t].pc = "extract"
    /\ left.extractions > 0
    /\ left' = [left EXCEPT !.extractions = @ - 1]
    /\ LET st == MergeExtraction(
                    [memories |-> memories, persons |-> persons,
                     events |-> events, users |-> users, next_id |-> next_id,
                     undo |-> undo[t], counts |-> NoCounts,
                     now |-> task[t].turn],
                    ex, task[t].user, t)
       IN  /\ memories' = st.memories
           /\ persons' = st.persons
           /\ events' = st.events
           /\ users' = st.users
           /\ next_id' = st.next_id
           /\ undo' = [undo EXCEPT ![t] = st.undo]
           /\ task' = [task EXCEPT ![t].pc = AfterProcess(t),
                                   ![t].extraction_invoked = TRUE,
                                   ![t].counts = st.counts,
                                   ![t].called = @ \cup {"extract_full_memory"}]
    /\ UNCHANGED <<messages, moods, summaries, subscriptions,
                   admin_telegram_ids, today, alerts, turns, serial, skipped,
                   clock, memory_store, trace, payments>>

\* admin.py:529-555 notify_admins_crisis: one alert for every configured
\* admin (a failed send is logged only); none when no admin is configured
notify_admins_crisis(turn, u, indicators) ==
    {[turn |-> turn, user |-> u, indicators |-> indicators, admin |-> a] :
        a \in admin_telegram_ids}

\* chat.py:159-177: the crisis branch.  The crisis response is saved and sent;
\* when the transport raises, the handler raises before the admins are told.
Crisis(t, delivered) ==
    /\ task[t].pc = "crisis"
    /\ ~delivered => left.faults > 0
    /\ left' = [left EXCEPT !.faults = IF delivered THEN @ ELSE @ - 1]
    /\ messages' = MessageSave(messages, next_id.messages, task[t].user,
                               "assistant", get_crisis_response, today,
                               task[t].turn, t)
    /\ next_id' = [next_id EXCEPT !.messages = @ + 1]
    /\ alerts' = IF delivered
                 THEN alerts \cup notify_admins_crisis(task[t].turn, task[t].user,
                                                       task[t].attention_reason)
                 ELSE alerts
    /\ task' = [task EXCEPT ![t].pc = IF delivered THEN "commit" ELSE "raise",
                            ![t].reply = get_crisis_response]
    /\ UNCHANGED <<memories, persons, events, moods, summaries, users,
                   subscriptions, admin_telegram_ids, today, undo, turns, serial, skipped,
                   clock, memory_store, trace, payments>>

\* chat.py:180-197: get_relevant_context (or build_additional_context) raises,
\* for example on a failed query; the call is outside the try of chat.py:200,
\* so the handler raises
ContextFailed(t) ==
    /\ task[t].pc = "reply"
    /\ left.faults > 0
    /\ left' = [left EXCEPT !.faults = @ - 1]
    /\ task' = [task EXCEPT ![t].pc = "raise",
                            ![t].called = @ \cup {"get_relevant_context"}]
    /\ UNCHANGED <<messages, memories, persons, events, moods, summaries, users,
                   subscriptions, next_id, admin_telegram_ids, today, undo,
                   alerts, turns, serial, skipped,
                   clock, memory_store, trace, payments>>

\* MoodRepository.get_recent (repository.py:658-672): the entries of the user
\* of the last days that the session sees
MoodGetRecent(mds, u, days, day, t) ==
    {m \in Visible(mds, t) : m.user_id = u /\ m.day >= day - days}

\* memory.py:368-377: current_mood of the payload, from the first entry of
\* get_recent(days=7), which is in created_at descending order (created_at is
\* the start of the turn's transaction, so no two entries of a user tie)
CurrentMood(mds, u, day, t) ==
    LET mood_entries == MoodGetRecent(mds, u, MoodHistoryDays, day, t)
        latest == CHOOSE m \in mood_entries :
                      \A o \in mood_entries : m.created_at >= o.created_at
    IN  IF mood_entries = {} THEN NoMood
        ELSE [mood_score |-> latest.mood_score,
              primary_emotion |-> latest.primary_emotion,
              emotional_need |-> latest.emotional_need]

\* chat.py:179-288: context, response generation (or the fallback reply when
\* it raises), the save of the reply and its delivery
ReplyFrom(pc, t, generated, delivered) ==
    /\ task[t].pc = pc
    /\ LET faults == (IF generated THEN 0 ELSE 1) + (IF delivered THEN 0 ELSE 1)
       IN  /\ faults <= left.faults
           /\ left' = [left EXCEPT !.faults = @ - faults]
    /\ messages' = MessageSave(messages, next_id.messages, task[t].user,
                               "assistant",
                               IF generated THEN "generated" ELSE "fallback",
                               today, task[t].turn, t)
    /\ next_id' = [next_id EXCEPT !.messages = @ + 1]
    /\ IF generated
       THEN /\ users' = [users EXCEPT ![task[t].user].last_active_at = today]
            /\ undo' = [undo EXCEPT ![t] = UndoUser(@, task[t].user)]
       ELSE UNCHANGED <<users, undo>>
    /\ task' = [task EXCEPT
                  ![t].pc = IF delivered THEN "summarize_check" ELSE "raise",
                  ![t].reply = IF generated THEN "generated" ELSE "fallback",
                  ![t].current_mood =
                      IF pc = "reply"
                      THEN CurrentMood(moods, task[t].user, today, t) ELSE @,
                  ![t].called = @ \cup {"get_relevant_context", "get_response"}]
    /\ UNCHANGED <<memories, persons, events, moods, summaries, subscriptions,
                   admin_telegram_ids, today, alerts, turns, serial, skipped,
                   clock, memory_store, trace, payments>>

\* the texts of the turns of Next yield no keywords (memory.py:462-470), so
\* get_relevant_context searches and marks nothing there (memory.py:320)
Reply(t, generated, delivered) == ReplyFrom("reply", t, generated, delivered)

\* ConversationSummaryRepository.get_recent(user_id, limit=1): the latest
\* summary of the user (a turn creates at most one)
LastSummary(sums, u, t) ==
    CHOOSE s \in {x \in Visible(sums, t) : x.user_id = u} :
        \A o \in {x \in Visible(sums, t) : x.user_id = u} :
            s.created_at >= o.created_at

\* memory.py:472-487.  recent is what get_recent returned: up to
\* SUMMARY_THRESHOLD + 1 messages when the user has no summary, up to the
\* window of memory.py:482 otherwise.
should_summarize(recent, sums, u, t) ==
    IF {s \in Visible(sums, t) : s.user_id = u} = {}
    THEN Len(recent) >= SUMMARY_THRESHOLD
    ELSE Cardinality({i \in DOMAIN recent :
                         recent[i] > LastSummary(sums, u, t).to_message_id})
             >= SUMMARY_THRESHOLD

\* memory.py:474-482: the limit of the get_recent of should_summarize
TriggerLimit(sums, u, t) ==
    IF {s \in Visible(sums, t) : s.user_id = u} = {}
    THEN SUMMARY_THRESHOLD + 1 ELSE SummaryWindow

\* memory.py:491-493: the results of the get_recent of create_summary
SummaryMessages(msgs, u, t) == MessageGetRecent(msgs, u, SUMMARY_THRESHOLD, t)

\* chat.py:291 and memory.py:491-495: the trigger and the window
SummarizeCheck(t) ==
    /\ task[t].pc = "summarize_check"
    /\ LET u == task[t].user
       IN  \E recent \in MessageGetRecent(messages, u,
                                           TriggerLimit(summaries, u, t), t),
              window \in SummaryMessages(messages, u, t) :
               IF should_summarize(recent, summaries, u, t)
                  /\ Len(window) >= MinSummaryMessages
               THEN task' = [task EXCEPT ![t].pc = "summarize",
                                         ![t].window = window,
                                         ![t].called = @ \cup {"should_summarize"}]
               ELSE task' = [task EXCEPT ![t].pc = "commit",
                                         ![t].called = @ \cup {"should_summarize"}]
    /\ UNCHANGED <<messages, memories, persons, events, moods, summaries, users,
                   subscriptions, next_id, admin_telegram_ids, today, undo,
                   alerts, turns, left, serial, skipped,
                   clock, memory_store, trace, payments>>

\* a variant of the skip that still flags the window as summarized
SummarizeFailedMarked(t) ==
    /\ task[t].pc = "summarize"
    /\ left.faults > 0
    /\ left' = [left EXCEPT !.faults = @ - 1]
    /\ messages' = mark_as_summarized(messages, SeqToSet(task[t].window))
    /\ task' = [task EXCEPT ![t].pc = "commit", ![t].window = << >>,
                            ![t].called = @ \cup {"summarize_conversation"}]
    /\ UNCHANGED <<memories, persons, events, moods, summaries, users,
                   subscriptions, next_id, admin_telegram_ids, today, undo,
                   alerts, turns, serial,
                   clock, memory_store, trace, payments>>
    /\ skipped' = skipped \cup {task[t].user}

\* memory.py:498-500: summarize_conversation failed or returned nothing
SummarizeFailed(t) ==
    /\ task[t].pc = "summarize"
    /\ left.faults > 0
    /\ left' = [left EXCEPT !.faults = @ - 1]
    /\ task' = [task EXCEPT ![t].pc = "commit", ![t].window = << >>,
                            ![t].called = @ \cup {"summarize_conversation"}]
    /\ UNCHANGED <<messages, memories, persons, events, moods, summaries, users,
                   subscriptions, next_id, admin_telegram_ids, today, undo,
                   alerts, turns, serial,
                   clock, memory_store, trace, payments>>
    /\ skipped' = skipped \cup {task[t].user}

\* memory.py:502-508: the ConversationSummary row of a window
SummaryRow(id, u, window, created_at, t) ==
    [id |-> id, user_id |-> u, from_message_id |-> window[1],
     to_message_id |-> window[Len(window)], messages_count |-> Len(window),
     created_at |-> created_at, tx |-> t]

\* memory.py:498-508: the summary came back and is persisted
SummaryCreate(t) ==
    /\ task[t].pc = "summarize"
    /\ summaries' = summaries \cup
           {SummaryRow(next_id.summaries, task[t].user, task[t].window,
                       task[t].turn, t)}
    /\ next_id' = [next_id EXCEPT !.summaries = @ + 1]
    /\ task' = [task EXCEPT ![t].pc = "mark",
                            ![t].called = @ \cup {"summarize_conversation"}]
    /\ UNCHANGED <<messages, memories, persons, events, moods, users,
                   subscriptions, admin_telegram_ids, today, undo, alerts,
                   turns, left, serial,
                   clock, memory_store, trace, payments>>
    /\ skipped' = skipped \ {task[t].user}

\* memory.py:510-511: the messages of the window are flagged
SummaryMark(t) ==
    /\ task[t].pc = "mark"
    /\ messages' = mark_as_summarized(messages, SeqToSet(task[t].window))
    /\ task' = [task EXCEPT ![t].pc = "commit"]
    /\ UNCHANGED <<memories, persons, events, moods, summaries, users,
                   subscriptions, next_id, admin_telegram_ids, today, undo,
                   alerts, turns, left, serial, skipped,
                   clock, memory_store, trace, payments>>

\* commands.py:26-43 cmd_start: the greeting is saved as an assistant message
\* and sent; the handler returns, or raises when the transport fails
CmdStart(t, u, delivered) ==
    /\ FirstFree(t)
    /\ left.turns > 0
    /\ ~delivered => left.faults > 0
    /\ serial => \A o \in Tasks : task[o].pc = "idle"
    /\ turns' = turns + 1
    /\ left' = [left EXCEPT !.turns = @ - 1,
                            !.faults = IF delivered THEN @ ELSE @ - 1]
    /\ messages' = MessageSave(messages, next_id.messages, u, "assistant",
                               "start", today, turns + 1, t)
    /\ next_id' = [next_id EXCEPT !.messages = @ + 1]
    /\ task' = [task EXCEPT ![t] =
                  [Idle EXCEPT !.pc = IF delivered THEN "commit" ELSE "raise",
                               !.user = u, !.turn = turns + 1, !.reply = "start"]]
    /\ UNCHANGED <<memories, persons, events, moods, summaries, users,
                   subscriptions, admin_telegram_ids, today, undo, alerts, serial, skipped,
                   clock, memory_store, trace, payments>>

\* commands.py:65-101 cmd_status: the account status is computed and sent; the
\* handler returns, or raises when the transport fails
CmdStatus(t, u, delivered) ==
    /\ FirstFree(t)
    /\ left.turns > 0
    /\ ~delivered => left.faults > 0
    /\ serial => \A o \in Tasks : task[o].pc = "idle"
    /\ turns' = turns + 1
    /\ left' = [left EXCEPT !.turns = @ - 1,
                            !.faults = IF delivered THEN @ ELSE @ - 1]
    /\ task' = [task EXCEPT ![t] =
                  [Idle EXCEPT !.pc = IF delivered THEN "commit" ELSE "raise",
                               !.user = u, !.turn = turns + 1, !.reply = "status",
                               !.daily_limit =
                                   get_plan_limit(subscriptions[u], today)]]
    /\ UNCHANGED <<messages, memories, persons, events, moods, summaries, users,
                   subscriptions, next_id, admin_telegram_ids, today, undo,
                   alerts, serial, skipped,
                   clock, memory_store, trace, payments>>

\* what the middleware and the jobs sent or let through for a user, numbered
\* per user
TraceOf(u) == {r \in trace : r.user = u}
Traced(kind, u, at) ==
    [kind |-> kind, user |-> u, at |-> at, n |-> Cardinality(TraceOf(u))]

\* proactive.py:45-78 get_users_to_checkin: users with a name who were last
\* active at least min_days ago
UsersToCheckin ==
    {u \in Users : /\ users[u].name # NoText
                   /\ users[u].last_active_at # -1
                   /\ users[u].last_active_at + min_days <= today}

\* a variant of the job that moves last_active_at of every user it found
RunCheckinsFound(reached) ==
    /\ reached # {}
    /\ reached \subseteq UsersToCheckin
    /\ users' = [u \in Users |->
                    IF u \in UsersToCheckin
                    THEN [users[u] EXCEPT !.last_active_at = today]
                    ELSE users[u]]
    /\ trace' = trace \cup {Traced("checkin", u, today) : u \in reached}
    /\ UNCHANGED <<messages, memories, persons, events, moods, summaries,
                   subscriptions, next_id, admin_telegram_ids, today, task, undo,
                   alerts, turns, left, serial, skipped,
                   clock, memory_store, payments>>

\* scheduler.py:90-106 _run_proactive_checkins with proactive.py:198-221
\* run_checkins: the job opens its own session, sends a check-in to the users
\* it found, sets last_active_at of those it reached and commits.  It takes
\* no lock and does not look at the turns in progress.
RunCheckins(reached) ==
    /\ reached # {}
    /\ reached \subseteq UsersToCheckin
    /\ users' = [u \in Users |->
                    IF u \in reached THEN [users[u] EXCEPT !.last_active_at = today]
                    ELSE users[u]]
    /\ trace' = trace \cup {Traced("checkin", u, today) : u \in reached}
    /\ UNCHANGED <<messages, memories, persons, events, moods, summaries,
                   subscriptions, next_id, admin_telegram_ids, today, task, undo,
                   alerts, turns, left, serial, skipped,
                   clock, memory_store, payments>>

\* midnight UTC (between turns)
NextDay ==
    /\ left.days > 0
    /\ \A t \in Tasks : task[t].pc = "idle"
    /\ today' = today + 1
    /\ left' = [left EXCEPT !.days = @ - 1]
    /\ UNCHANGED <<messages, memories, persons, events, moods, summaries, users,
                   subscriptions, next_id, admin_telegram_ids, task, undo,
                   alerts, turns, serial, skipped,
                   clock, memory_store, trace, payments>>

----------------------------------------------------------------------------
Next ==
    \/ \E t \in Tasks, u \in Users, text \in MessageTexts : HandleMessage(t, u, text)
    \/ \E t \in Tasks, delivered \in BOOLEAN : BlockedAnswer(t, delivered)
    \/ \E t \in Tasks : DetectMoodNone(t)
    \/ \E t \in Tasks, mood_data \in MoodResults : DetectMood(t, mood_data)
    \/ \E t \in Tasks : ExtractNone(t)
    \/ \E t \in Tasks, ex \in Extractions : ExtractAllMemories(t, ex)
    \/ \E t \in Tasks, delivered \in BOOLEAN : Crisis(t, delivered)
    \/ \E t \in Tasks : ContextFailed(t)
    \/ \E t \in Tasks, generated \in BOOLEAN, delivered \in BOOLEAN :
           Reply(t, generated, delivered)
    \/ \E t \in Tasks : SummarizeCheck(t)
    \/ \E t \in Tasks : SummarizeFailed(t)
    \/ \E t \in Tasks : SummaryCreate(t)
    \/ \E t \in Tasks : SummaryMark(t)
    \/ \E t \in Tasks, u \in Users, delivered \in BOOLEAN : CmdStart(t, u, delivered)
    \/ \E t \in Tasks : Commit(t)
    \/ \E t \in Tasks : Rollback(t)
    \/ \E reached \in SUBSET Users : RunCheckins(reached)
    \/ NextDay

\* updates handled as concurrent tasks
Spec == Init /\ [][Next]_vars

\* updates handled one at a time
SpecSeq == InitSeq /\ [][Next]_vars

----------------------------------------------------------------------------
(* The account status alone, over the subscriptions a user can have.       *)

\* the Subscription rows get_plan_limit can meet, and no row
Subscriptions ==
    {NoSubscription} \cup
    [plan : SubscriptionPlan, status : SubscriptionStatus, started_at : {-1},
     expires_at : -1..2]

StatusRun == [turns |-> MaxStatusTurns, days |-> 0, moods |-> 0,
              extractions |-> 0, faults |-> MaxFaults]

InitPlan ==
    /\ messages = {}
    /\ memories = {}
    /\ persons = {}
    /\ events = {}
    /\ moods = {}
    /\ summaries = {}
    /\ users = [u \in Users |-> [name |-> NoText, last_active_at |-> -1]]
    /\ subscriptions \in [Users -> Subscriptions]
    /\ next_id = [messages |-> 1, memories |-> 1, persons |-> 1, events |-> 1,
                  moods |-> 1, summaries |-> 1]
    /\ admin_telegram_ids = {}
    /\ today = 1
    /\ task = [t \in Tasks |-> Idle]
    /\ undo = [t \in Tasks |-> NoUndo]
    /\ alerts = {}
    /\ turns = 0
    /\ skipped = {}
    /\ clock = 0
    /\ memory_store = [u \in Users |-> << >>]
    /\ trace = {}
    /\ payments = {}
    /\ serial = FALSE
    /\ left = StatusRun

NextPlan ==
    \/ \E t \in Tasks, u \in Users, delivered \in BOOLEAN : CmdStatus(t, u, delivered)
    \/ \E t \in Tasks : Commit(t)
    \/ \E t \in Tasks : Rollback(t)

SpecPlan == InitPlan /\ [][NextPlan]_vars

----------------------------------------------------------------------------
(* The merge of an extraction, item by item (memory.py:168-299).  The task  *)
(* is at "facts", "persons", "events" or "updates" while the loop of that   *)
(* list runs; the items of the extraction are chosen one at a time.         *)

\* the items an extraction can carry
FactItems ==
    { Fact(<<"a", "b">>, "job", 5), Fact(<<"a">>, "none", 7),
      Fact(<<"i", "g">>, "user_name", 5) }

PersonItems ==
    { PersonData(<<"M", "a">>, <<"n">>, "warm"),
      PersonData(<<"a", "m">>, <<"k">>, "absent"),
      PersonData(<<"m">>, NoText, "null"),
      PersonData(<<"A">>, NoText, "absent") }

EventItems ==
    { EventData(<<"e">>, <<2025, 2, 30>>, <<"a">>),
      EventData(<<"e">>, <<2025, 3, 1>>, <<"z">>),
      EventData(<<"e">>, NoText, NoText) }

UpdateItems ==
    { FactUpdate("job", NoText, <<"b">>),
      FactUpdate("pet", <<"b", "b">>, <<"b">>),
      FactUpdate("none", <<"A">>, <<"a", "a">>) }

\* the lists in the order of the source
MergeStages == <<"facts", "persons", "events", "updates">>

\* the state the merge works on
MergeState(t) ==
    [memories |-> memories, persons |-> persons, events |-> events,
     users |-> users, next_id |-> next_id, undo |-> undo[t],
     counts |-> task[t].counts, now |-> task[t].turn]

\* one item was handled and left the merge in state st; calls are the
\* lookups of memory.py:262-270 it made
MergeApply(t, st, calls) ==
    /\ left.items > 0
    /\ left' = [left EXCEPT !.items = @ - 1]
    /\ memories' = st.memories
    /\ persons' = st.persons
    /\ events' = st.events
    /\ users' = st.users
    /\ next_id' = st.next_id
    /\ undo' = [undo EXCEPT ![t] = st.undo]
    /\ task' = [task EXCEPT ![t].counts = st.counts,
                            ![t].called = @ \cup calls]
    /\ UNCHANGED <<messages, moods, summaries, subscriptions,
                   admin_telegram_ids, today, alerts, turns, serial, skipped,
                   clock, memory_store, trace, payments>>

\* a variant of the lookup that compares whole names, case-sensitively
PersonExactMatches(prs, u, name, t) ==
    LET matching == {p \in Visible(prs, t) :
                        p.user_id = u /\ p.is_active /\ p.name = name}
    IN  {p.id : p \in {x \in matching :
                          \A o \in matching : x.created_at >= o.created_at}}

\* PersonRepository.get_by_name (repository.py:370-378): the ids the loop over
\* get_all's result (created_at desc) can meet first; the rows of one turn
\* have the same created_at, so their order is not fixed
PersonFirstMatches(prs, u, name, t) ==
    LET matching == {p \in Visible(prs, t) :
                        /\ p.user_id = u /\ p.is_active
                        /\ Contains(ToLower(p.name), ToLower(name))}
    IN  {p.id : p \in {x \in matching :
                          \A o \in matching : x.created_at >= o.created_at}}

\* what get_by_name can return: an id, or 0 for None
GetByNameResults(prs, u, name, t) ==
    IF PersonFirstMatches(prs, u, name, t) = {} THEN {0}
    ELSE PersonFirstMatches(prs, u, name, t)

\* memory.py:127 and 143-169: extraction returned a result; the loops begin
MergeStart(t) ==
    /\ task[t].pc = "extract"
    /\ left.items > 0
    /\ task' = [task EXCEPT ![t].pc = "facts",
                            ![t].extraction_invoked = TRUE,
                            ![t].counts = NoCounts,
                            ![t].called = @ \cup {"extract_full_memory"}]
    /\ UNCHANGED <<messages, memories, persons, events, moods, summaries, users,
                   subscriptions, next_id, admin_telegram_ids, today, undo,
                   alerts, turns, left, serial, skipped,
                   clock, memory_store, trace, payments>>

\* memory.py:171-193
MergeFact(t, f) ==
    /\ task[t].pc = "facts"
    /\ MergeApply(t, ProcessFact(MergeState(t), f, task[t].user, t), {})

\* memory.py:196-220
MergePerson(t, p) ==
    /\ task[t].pc = "persons"
    /\ \E existing \in GetByNameResults(persons, task[t].user, p.name, t) :
           MergeApply(t, ProcessPersonAs(MergeState(t), p, task[t].user, t,
                                         existing), {})

\* memory.py:223-256
MergeEvent(t, e) ==
    /\ task[t].pc = "events"
    /\ \E related \in (IF e.related_person = NoText THEN {0}
                       ELSE GetByNameResults(persons, task[t].user,
                                             e.related_person, t)) :
           MergeApply(t, ProcessEventAs(MergeState(t), e, task[t].user, t,
                                        related), {})

\* memory.py:259-290
MergeUpdate(t, up) ==
    /\ task[t].pc = "updates"
    /\ MergeApply(t, ProcessUpdate(MergeState(t), up, task[t].user, t),
                  UpdateLookups(memories, up, task[t].user, t))

\* an item without the key the loop reads with [] ("fact", "name", "title",
\* "new_fact"): KeyError before anything is written, caught by the except of
\* the item (memory.py:192, 219, 255, 289)
MergeMalformed(t) ==
    /\ task[t].pc \in SeqToSet(MergeStages)
    /\ left.items > 0
    /\ left' = [left EXCEPT !.items = @ - 1]
    /\ UNCHANGED <<messages, memories, persons, events, moods, summaries, users,
                   subscriptions, next_id, admin_telegram_ids, today, task,
                   undo, alerts, turns, serial, skipped,
                   clock, memory_store, trace, payments>>

\* an item whose row the database rejects (a null fact, name, title or
\* new_fact in a NOT NULL column, models.py:162, 213, 255): the flush of
\* repository.py:205, 245, 357 or 479 raises and the session's transaction is
\* rolled back; the except of the item catches the error, but every later
\* statement on the session raises PendingRollbackError: the remaining items
\* fail the same way, and so does the first query after process_message
\* (chat.py:162 or 180), which is outside every try; the handler raises
MergeRejected(t) ==
    /\ task[t].pc \in SeqToSet(MergeStages)
    /\ left.items > 0
    /\ left' = [left EXCEPT !.items = @ - 1]
    /\ SessionRollback(t)
    /\ task' = [task EXCEPT ![t].pc = "raise"]
    /\ UNCHANGED <<subscriptions, next_id, admin_telegram_ids, today,
                   alerts, turns, serial, skipped,
                   clock, memory_store, trace, payments>>

\* the loop of a list is over: the next list, or the return of the counts
MergeNext(t) ==
    /\ \E i \in DOMAIN MergeStages :
           /\ task[t].pc = MergeStages[i]
           /\ task' = [task EXCEPT ![t].pc =
                          IF i < Len(MergeStages) THEN MergeStages[i + 1]
                          ELSE AfterProcess(t)]
    /\ UNCHANGED <<messages, memories, persons, events, moods, summaries, users,
                   subscriptions, next_id, admin_telegram_ids, today, undo,
                   alerts, turns, left, serial, skipped,
                   clock, memory_store, trace, payments>>

MergeRun == [turns |-> 1, days |-> 0, moods |-> 0, extractions |-> 0,
             faults |-> MaxFaults, items |-> MaxItems]

InitMerge == InitStore /\ serial = TRUE /\ left = MergeRun

NextMerge ==
    \/ \E t \in Tasks, u \in Users, text \in MessageTexts : HandleMessage(t, u, text)
    \/ \E t \in Tasks : DetectMoodNone(t)
    \/ \E t \in Tasks : MergeStart(t)
    \/ \E t \in Tasks, f \in FactItems : MergeFact(t, f)
    \/ \E t \in Tasks, p \in PersonItems : MergePerson(t, p)
    \/ \E t \in Tasks, e \in EventItems : MergeEvent(t, e)
    \/ \E t \in Tasks, up \in UpdateItems : MergeUpdate(t, up)
    \/ \E t \in Tasks : MergeMalformed(t)
    \/ \E t \in Tasks : MergeRejected(t)
    \/ \E t \in Tasks : MergeNext(t)
    \/ \E t \in Tasks, generated \in BOOLEAN, delivered \in BOOLEAN :
           Reply(t, generated, delivered)
    \/ \E t \in Tasks : SummarizeCheck(t)
    \/ \E t \in Tasks : Commit(t)
    \/ \E t \in Tasks : Rollback(t)

\* one turn whose extraction is merged item by item
SpecMerge == InitMerge /\ [][NextMerge]_vars

----------------------------------------------------------------------------
(* MemoryManager.get_relevant_context (memory.py:301-431): the search for   *)
(* the relevant memories and the access mark.                               *)

\* the words _extract_keywords drops among the words of the model
stop_words == { <<"b", "a", "b">> }

\* memory.py:449-470 _extract_keywords: the lower-cased words longer than two
\* characters that are no stop words (a text of the model is one word)
ExtractKeywords(text) ==
    IF Len(text) > 2 /\ ToLower(text) \notin stop_words THEN {ToLower(text)}
    ELSE {}

\* MemoryRepository.search_by_tags (repository.py:288-301)
search_by_tags(mems, u, search_tags, t) ==
    {m \in CurrentMemories(mems, u, t) :
        \E tag \in search_tags : tag \in {ToLower(x) : x \in m.tags}}

\* MemoryRepository.search_by_text (repository.py:303-312)
search_by_text(mems, u, search_text, t) ==
    {m \in CurrentMemories(mems, u, t) :
        Contains(ToLower(m.fact), ToLower(search_text))}

\* MemoryRepository.mark_accessed (repository.py:314-320)
mark_accessed(mems, memory_ids, now) ==
    {IF m.id \in memory_ids THEN [m EXCEPT !.last_accessed_at = now] ELSE m :
        m \in mems}

\* remember the rows before the session's first update of them
UndoRows(old, rows, ids, t) ==
    old \cup {r \in rows : r.id \in ids /\ r.tx # t
                           /\ ~\E o \in old : o.id = r.id}

\* memory.py:313-329 and 392-399: what is searched, marked and placed in the
\* payload as "relevant_memories" (at most ten rows; the stores of the model
\* hold fewer)
GetRelevantContext(t, current_message) ==
    /\ task[t].pc = "reply"
    /\ LET u == task[t].user
           keywords == ExtractKeywords(current_message)
           relevant_by_tags == IF keywords # {}
                               THEN search_by_tags(memories, u, keywords, t)
                               ELSE {}
           relevant_by_text == IF keywords # {}
                               THEN search_by_text(memories, u, current_message, t)
                               ELSE {}
           accessed_ids == Ids(relevant_by_tags \cup relevant_by_text)
       IN  /\ memories' = mark_accessed(memories, accessed_ids, task[t].turn)
           /\ undo' = [undo EXCEPT ![t].memories =
                          UndoRows(@, memories, accessed_ids, t)]
           /\ task' = [task EXCEPT
                         ![t].pc = "generate",
                         ![t].relevant_memories = Ids(relevant_by_tags),
                         ![t].current_mood = CurrentMood(moods, u, today, t),
                         ![t].called = @ \cup {"get_relevant_context"}]
    /\ UNCHANGED <<messages, persons, events, moods, summaries, users,
                   subscriptions, next_id, admin_telegram_ids, today,
                   alerts, turns, left, serial, skipped,
                   clock, memory_store, trace, payments>>

\* the facts of the extractions and the texts of the messages of these turns
ContextFacts ==
    { TaggedFact(<<"a", "b", "b", "a">>, "none", 5, {}),
      TaggedFact(<<"b">>, "job", 7, { <<"A", "b", "b">> }) }

ContextTexts == { <<"a">>, <<"A", "b", "b">>, <<"b", "a", "b">> }

ContextRun == [turns |-> MaxContextTurns, days |-> 0, moods |-> 0,
               extractions |-> 0, faults |-> 0, items |-> MaxContextItems]

InitContext == InitStore /\ serial = TRUE /\ left = ContextRun

NextContext ==
    \/ \E t \in Tasks, u \in Users, text \in MessageTexts : HandleMessage(t, u, text)
    \/ \E t \in Tasks : DetectMoodNone(t)
    \/ \E t \in Tasks : ExtractNone(t)
    \/ \E t \in Tasks : MergeStart(t)
    \/ \E t \in Tasks, f \in ContextFacts : MergeFact(t, f)
    \/ \E t \in Tasks : MergeNext(t)
    \/ \E t \in Tasks, current_message \in ContextTexts :
           GetRelevantContext(t, current_message)
    \/ \E t \in Tasks : ReplyFrom("generate", t, TRUE, TRUE)
    \/ \E t \in Tasks : SummarizeCheck(t)
    \/ \E t \in Tasks : SummaryCreate(t)
    \/ \E t \in Tasks : SummaryMark(t)
    \/ \E t \in Tasks : Commit(t)

\* turns whose context is assembled for a message that can yield keywords
SpecContext == InitContext /\ [][NextContext]_vars

----------------------------------------------------------------------------
(* ClaudeClient._make_request (claude.py:87-181).  request.attempt is the   *)
(* number of posts made, request.waited the sleeps so far; retry_after = -1 *)
(* stands for a response without that header.                              *)

Response(kind, status, body, retry_after) ==
    [kind |-> kind, status |-> status, body |-> body, retry_after |-> retry_after]

\* what a post can give: a response (a message, an error object or another
\* body), a timeout or a transport error
Responses ==
    { Response("response", 200, "message", -1),
      Response("response", 200, "other", -1),
      Response("response", 429, "error", 7),
      Response("response", 429, "error", -1),
      Response("response", 500, "error", -1),
      Response("response", 400, "error", -1),
      Response("response", 400, "other", -1),
      Response("timeout", 0, "none", -1),
      Response("request_error", 0, "none", -1) }

\* 2 ** attempt
Pow2(n) == IF n = 0 THEN 1 ELSE IF n = 1 THEN 2 ELSE IF n = 2 THEN 4 ELSE 8

\* a caller enters _make_request (claude.py:98-109)
MakeRequest(t) ==
    /\ FirstFree(t)
    /\ left.requests > 0
    /\ left' = [left EXCEPT !.requests = @ - 1]
    /\ task' = [task EXCEPT ![t] = [Idle EXCEPT !.pc = "post"]]
    /\ UNCHANGED <<messages, memories, persons, events, moods, summaries, users,
                   subscriptions, next_id, admin_telegram_ids, today, undo,
                   alerts, turns, serial, skipped,
                   clock, memory_store, trace, payments>>

\* the request after a sleep and "continue": the next attempt, or, when the
\* loop is over, the raise of claude.py:181
Continue(q, seconds, last_error) ==
    [q EXCEPT !.attempt = @ + 1,
              !.waited = Append(@, seconds),
              !.last_error = last_error,
              !.raised = IF q.attempt + 1 = max_retries
                         THEN "ClaudeAPIError" ELSE "none",
              !.retryable = q.attempt + 1 = max_retries /\ last_error # "none"]

\* claude.py:110-178: one pass of the loop, with what the post gave
Post(t, r) ==
    /\ task[t].pc = "post"
    /\ LET q == [task[t].request EXCEPT !.statuses = Append(@, r.status)]
           next ==
               IF r.kind = "response" /\ r.status = 200
               THEN [q EXCEPT !.attempt = @ + 1,
                              !.raised = IF r.body = "message" THEN "none"
                                         ELSE "KeyError"]
               ELSE IF r.kind = "response" /\ r.status = 429
               THEN Continue(q, IF r.retry_after = -1 THEN DefaultRetryAfter
                                ELSE r.retry_after, q.last_error)
               ELSE IF r.kind = "response" /\ r.status >= 500
               THEN Continue(q, Pow2(q.attempt), q.last_error)
               ELSE IF r.kind = "response"
               THEN [q EXCEPT !.attempt = @ + 1,
                              !.raised = IF r.body = "error" THEN "ClaudeAPIError"
                                         ELSE "JSONDecodeError",
                              !.status_code = IF r.body = "error" THEN r.status
                                              ELSE -1]
               ELSE Continue(q, Pow2(q.attempt), r.kind)
       IN  task' = [task EXCEPT
                      ![t].request = next,
                      ![t].pc = IF next.raised # "none" THEN "raised"
                                ELSE IF r.kind = "response" /\ r.status = 200
                                THEN "returned" ELSE "post"]
    /\ UNCHANGED <<messages, memories, persons, events, moods, summaries, users,
                   subscriptions, next_id, admin_telegram_ids, today, undo,
                   alerts, turns, left, serial, skipped,
                   clock, memory_store, trace, payments>>

\* the reply of the except branch of handle_message (chat.py:248-284) for
\* the exception that get_response raised
FallbackReply(q) ==
    IF q.raised = "ClaudeAPIError"
    THEN IF q.status_code = 429 THEN "rate_limit_fallback"
         ELSE IF q.status_code # -1 /\ q.status_code >= 500
         THEN "server_error_fallback"
         ELSE "api_error_fallback"
    ELSE "generic_fallback"

\* the caller has the response or the exception: handle_message takes the
\* content of the response as the reply, or the fallback of the exception
RequestDone(t) ==
    /\ task[t].pc \in {"returned", "raised"}
    /\ task' = [task EXCEPT
                  ![t].pc = "answered",
                  ![t].reply = IF task[t].pc = "returned" THEN "generated"
                               ELSE FallbackReply(task[t].request)]
    /\ UNCHANGED <<messages, memories, persons, events, moods, summaries, users,
                   subscriptions, next_id, admin_telegram_ids, today, undo,
                   alerts, turns, left, serial, skipped,
                   clock, memory_store, trace, payments>>

\* the reply is on its way and the task is free again
RequestEnd(t) ==
    /\ task[t].pc = "answered"
    /\ task' = [task EXCEPT ![t] = Idle]
    /\ UNCHANGED <<messages, memories, persons, events, moods, summaries, users,
                   subscriptions, next_id, admin_telegram_ids, today, undo,
                   alerts, turns, left, serial, skipped,
                   clock, memory_store, trace, payments>>

RequestRun == [turns |-> 0, days |-> 0, moods |-> 0, extractions |-> 0,
               faults |-> 0, requests |-> MaxRequests]

InitRequest == InitStore /\ serial = FALSE /\ left = RequestRun

NextRequest ==
    \/ \E t \in Tasks : MakeRequest(t)
    \/ \E t \in Tasks, r \in Responses : Post(t, r)
    \/ \E t \in Tasks : RequestDone(t)
    \/ \E t \in Tasks : RequestEnd(t)

\* requests to the completion service, attempt by attempt
SpecRequest == InitRequest /\ [][NextRequest]_vars

----------------------------------------------------------------------------
(* PersonRepository.get_upcoming_dates (repository.py:416-445).  A date is  *)
(* <<year, month, day>>; in these runs today is the ordinal of a date       *)
(* (date.toordinal).                                                        *)

DaysBeforeYear(y) ==
    (y - 1) * 365 + (y - 1) \div 4 - (y - 1) \div 100 + (y - 1) \div 400

RECURSIVE DaysBeforeMonth(_, _)
DaysBeforeMonth(y, m) ==
    IF m = 1 THEN 0 ELSE DaysBeforeMonth(y, m - 1) + DaysInMonth(y, m - 1)

\* date.toordinal
Ordinal(d) == DaysBeforeYear(d[1]) + DaysBeforeMonth(d[1], d[2]) + d[3]

\* the year of a day of the runs
YearOf(ordinal) ==
    CHOOSE y \in 2026..2030 :
        Ordinal(<<y, 1, 1>>) <= ordinal /\ ordinal < Ordinal(<<y + 1, 1, 1>>)

\* date.replace(year=...); NoText when it raises ValueError
ReplaceYear(d, year) ==
    IF StrptimeOk(<<year, d[2], d[3]>>) THEN <<year, d[2], d[3]>> ELSE NoText

\* a variant of the comparison of repository.py:431 that also moves a date
\* that falls on today to next year
PassedOrToday(this_year, day) == this_year <= day

\* repository.py:431: this year's occurrence has passed
Passed(this_year, day) == this_year < day

\* repository.py:427-443: the entry of one item of important_dates, as a list
\* of one entry, or of none when the item is skipped
UpcomingEntry(person, item, day, days) ==
    LET this_year == IF StrptimeOk(item.date)
                     THEN ReplaceYear(item.date, YearOf(day)) ELSE NoText
        occurrence == IF this_year # NoText /\ Passed(Ordinal(this_year), day)
                      THEN ReplaceYear(item.date, YearOf(day) + 1)
                      ELSE this_year
    IN  IF occurrence = NoText THEN << >>
        ELSE IF Ordinal(occurrence) - day \in 0..days
        THEN << [person_name |-> person.name, date_type |-> item.date_type,
                 date |-> occurrence,
                 days_until |-> Ordinal(occurrence) - day] >>
        ELSE << >>

RECURSIVE UpcomingOfItems(_, _, _, _)
UpcomingOfItems(person, items, day, days) ==
    IF items = << >> THEN << >>
    ELSE UpcomingEntry(person, Head(items), day, days)
         \o UpcomingOfItems(person, Tail(items), day, days)

\* get_all's order, newest first (the persons of these runs differ in
\* created_at)
RECURSIVE PersonGetAll(_)
PersonGetAll(rows) ==
    IF rows = {} THEN << >>
    ELSE LET first == CHOOSE p \in rows : \A o \in rows : p.created_at >= o.created_at
         IN  <<first>> \o PersonGetAll(rows \ {first})

RECURSIVE UpcomingOfPersons(_, _, _)
UpcomingOfPersons(prs, day, days) ==
    IF prs = << >> THEN << >>
    ELSE UpcomingOfItems(Head(prs), Head(prs).important_dates, day, days)
         \o UpcomingOfPersons(Tail(prs), day, days)

\* sorted(upcoming, key=days_until): a stable sort
RECURSIVE SortedByDaysUntil(_)
SortedByDaysUntil(entries) ==
    IF entries = << >> THEN << >>
    ELSE LET rest == SortedByDaysUntil(Tail(entries))
             e == Head(entries)
             before == SelectSeq(rest, LAMBDA x : x.days_until < e.days_until)
             after == SelectSeq(rest, LAMBDA x : x.days_until >= e.days_until)
         IN  before \o <<e>> \o after

get_upcoming_dates(prs, u, t, day, days) ==
    SortedByDaysUntil(
        UpcomingOfPersons(
            PersonGetAll({p \in Visible(prs, t) : p.user_id = u /\ p.is_active}),
            day, days))

DateItem(date_type, date) == [date_type |-> date_type, date |-> date]

\* the values of important_dates; the last date string is no date
DateStrings ==
    { <<1990, 12, 30>>, <<1990, 1, 3>>, <<2000, 2, 29>>, <<1990, 6, 10>>,
      <<1990, 6, 24>>, <<1990, 6, 25>>, <<1990, 6, 9>>, <<1990, 13, 1>> }

\* the days on which the dates are asked for
Todays ==
    { <<2027, 12, 25>>, <<2028, 2, 20>>, <<2027, 2, 20>>, <<2028, 3, 1>>,
      <<2027, 6, 10>> }

DatedPerson(id, u, name, items, is_active) ==
    [id |-> id, user_id |-> u, name |-> name, notes |-> NoText,
     emotional_tone |-> "neutral", important_dates |-> items,
     is_active |-> is_active, created_at |-> id, tx |-> 0]

\* a person of user 1 with a birthday and, maybe, an anniversary, and a second
\* person with a birthday who is inactive or belongs to user 2
PersonStores ==
    { { DatedPerson(1, 1, <<"M", "a">>,
                    <<DateItem("birthday", b)>> \o a, TRUE),
        DatedPerson(2, o.user, <<"a", "m">>,
                    <<DateItem("birthday", <<1990, 6, 10>>)>>, o.is_active) } :
        b \in DateStrings,
        a \in {<< >>} \cup {<<DateItem("anniversary", d)>> :
                               d \in {<<1990, 1, 3>>, <<1990, 6, 10>>}},
        o \in {[user |-> 1, is_active |-> TRUE],
               [user |-> 1, is_active |-> FALSE],
               [user |-> 2, is_active |-> TRUE]} }

\* memory.py:338: get_relevant_context asks for the upcoming dates
GetUpcomingDates(t, u) ==
    /\ FirstFree(t)
    /\ left.calls > 0
    /\ left' = [left EXCEPT !.calls = @ - 1]
    /\ task' = [task EXCEPT ![t] =
                  [Idle EXCEPT !.pc = "dates", !.user = u,
                               !.upcoming = get_upcoming_dates(persons, u, t, today,
                                                               UpcomingDays)]]
    /\ UNCHANGED <<messages, memories, persons, events, moods, summaries, users,
                   subscriptions, next_id, admin_telegram_ids, today, undo,
                   alerts, turns, serial, skipped,
                   clock, memory_store, trace, payments>>

\* the caller has the list
DatesDone(t) ==
    /\ task[t].pc = "dates"
    /\ task' = [task EXCEPT ![t] = Idle]
    /\ UNCHANGED <<messages, memories, persons, events, moods, summaries, users,
                   subscriptions, next_id, admin_telegram_ids, today, undo,
                   alerts, turns, left, serial, skipped,
                   clock, memory_store, trace, payments>>

DatesRun == [turns |-> 0, days |-> 0, moods |-> 0, extractions |-> 0,
             faults |-> 0, calls |-> MaxDateCalls]

InitDates ==
    /\ messages = {} /\ memories = {} /\ events = {} /\ moods = {}
    /\ summaries = {}
    /\ persons \in PersonStores
    /\ users = [u \in Users |-> [name |-> NoText, last_active_at |-> -1]]
    /\ subscriptions = [u \in Users |-> FreeSubscription]
    /\ next_id = [messages |-> 1, memories |-> 1, persons |-> 3, events |-> 1,
                  moods |-> 1, summaries |-> 1]
    /\ admin_telegram_ids = {}
    /\ today \in {Ordinal(d) : d \in Todays}
    /\ task = [t \in Tasks |-> Idle]
    /\ undo = [t \in Tasks |-> NoUndo]
    /\ alerts = {}
    /\ turns = 0
    /\ skipped = {}
    /\ clock = 0
    /\ memory_store = [u \in Users |-> << >>]
    /\ trace = {}
    /\ payments = {}
    /\ serial = FALSE
    /\ left = DatesRun

NextDates ==
    \/ \E t \in Tasks, u \in Users : GetUpcomingDates(t, u)
    \/ \E t \in Tasks : DatesDone(t)

\* the upcoming dates of stores of persons with important dates
SpecDates == InitDates /\ [][NextDates]_vars

----------------------------------------------------------------------------
(* RateLimitMiddleware (app/bot/middlewares/rate_limit.py) with the        *)
(* in-memory store, as main.py registers it: no Redis client is passed.    *)
(* The check and the record are synchronous calls with no suspension       *)
(* point between them, so one call of the middleware up to the hand-over   *)
(* to the handler is one step. The clock is in seconds.                    *)

rate_limit == 10
RateWindow == 60
ClockStep == 30
MaxTicks == 2
MaxLimitCalls == 12

\* the entries of the store of the user that are still in the window
\* (rate_limit.py:107-109)
WindowEntries(u) ==
    SelectSeq(memory_store[u], LAMBDA at : at > clock - RateWindow)

\* a variant of the check that lets a full window through
check_memory_rate_limit_over(u) == Len(WindowEntries(u)) > rate_limit

\* _check_memory_rate_limit: the window of the user is full
check_memory_rate_limit(u) == Len(WindowEntries(u)) >= rate_limit

\* RateLimitMiddleware.__call__ for a message of the user: a limited message
\* is answered with the notice and dropped, any other one is recorded in the
\* store and handed to the handler
RateLimitCall(u) ==
    /\ left.calls > 0
    /\ left' = [left EXCEPT !.calls = @ - 1]
    /\ IF check_memory_rate_limit(u)
       THEN /\ memory_store' = [memory_store EXCEPT ![u] = WindowEntries(u)]
            /\ trace' = trace \cup {Traced("notice", u, clock)}
       ELSE /\ memory_store' =
                [memory_store EXCEPT ![u] = Append(WindowEntries(u), clock)]
            /\ trace' = trace \cup {Traced("passed", u, clock)}
    /\ UNCHANGED <<messages, memories, persons, events, moods, summaries, users,
                   subscriptions, next_id, admin_telegram_ids, today, task,
                   undo, alerts, turns, serial, skipped, clock, payments>>

\* time passes
Tick ==
    /\ left.ticks > 0
    /\ left' = [left EXCEPT !.ticks = @ - 1]
    /\ clock' = clock + ClockStep
    /\ UNCHANGED <<messages, memories, persons, events, moods, summaries, users,
                   subscriptions, next_id, admin_telegram_ids, today, task,
                   undo, alerts, turns, serial, skipped, memory_store, trace,
                   payments>>

LimitRun == [turns |-> 0, days |-> 0, moods |-> 0, extractions |-> 0,
             faults |-> 0, calls |-> MaxLimitCalls, ticks |-> MaxTicks]

InitLimit == InitStore /\ serial = FALSE /\ left = LimitRun

NextLimit ==
    \/ \E u \in Users : RateLimitCall(u)
    \/ Tick

\* the messages of the users through the middleware, over a few windows
SpecLimit == InitLimit /\ [][NextLimit]_vars

----------------------------------------------------------------------------
(* The check-in job over several days, between turns of the users.         *)

MaxCheckinDays == 3
MaxCheckinTurns == 2

CheckinRun == [turns |-> MaxCheckinTurns, days |-> MaxCheckinDays, moods |-> 0,
               extractions |-> 0, faults |-> 0]

InitCheckins == InitStore /\ serial = TRUE /\ left = CheckinRun

NextCheckins ==
    \/ \E t \in Tasks, u \in Users, text \in MessageTexts : HandleMessage(t, u, text)
    \/ \E t \in Tasks : DetectMoodNone(t)
    \/ \E t \in Tasks : ExtractNone(t)
    \/ \E t \in Tasks : Reply(t, TRUE, TRUE)
    \/ \E t \in Tasks : SummarizeCheck(t)
    \/ \E t \in Tasks : SummaryCreate(t)
    \/ \E t \in Tasks : SummaryMark(t)
    \/ \E t \in Tasks : Commit(t)
    \/ \E reached \in SUBSET Users : RunCheckins(reached)
    \/ NextDay

\* a few turns and then days of check-in runs
SpecCheckins == InitCheckins /\ [][NextCheckins]_vars

----------------------------------------------------------------------------
(* Turns whose mood inference gives different moods, handled as concurrent *)
(* tasks.                                                                   *)

MaxMoodTurns == 2

MoodScores ==
    { [requires_attention |-> FALSE, crisis_indicators |-> "none",
       mood_score |-> 7, primary_emotion |-> "joy", emotional_need |-> "share"],
      [requires_attention |-> FALSE, crisis_indicators |-> "none",
       mood_score |-> 3, primary_emotion |-> "sadness",
       emotional_need |-> "support"] }

MoodRun == [turns |-> MaxMoodTurns, days |-> 0, moods |-> MaxMoodTurns,
            extractions |-> 0, faults |-> 0]

InitMood == InitStore /\ serial = FALSE /\ left = MoodRun

NextMood ==
    \/ \E t \in Tasks, u \in Users, text \in MessageTexts : HandleMessage(t, u, text)
    \/ \E t \in Tasks : DetectMoodNone(t)
    \/ \E t \in Tasks, mood_data \in MoodScores : DetectMood(t, mood_data)
    \/ \E t \in Tasks : ExtractNone(t)
    \/ \E t \in Tasks : Reply(t, TRUE, TRUE)
    \/ \E t \in Tasks : SummarizeCheck(t)
    \/ \E t \in Tasks : SummaryCreate(t)
    \/ \E t \in Tasks : SummaryMark(t)
    \/ \E t \in Tasks : Commit(t)

\* concurrent turns with inferred moods
SpecMood == InitMood /\ [][NextMood]_vars

----------------------------------------------------------------------------
(* The crisis follow-up job (scheduler.py:108-158): the cron trigger fires  *)
(* every two hours.  In these runs the clock is in hours, mood entries     *)
(* carry the hour they were stored at, and the runs stay within day 0.     *)

FollowupInterval == 2
MinFollowupHours == 2
MaxFollowupHours == 24
HoursOfDay == 24
MaxFollowupRuns == 3
MaxFollowupTurns == 2

\* scheduler.py:123-130: the users the job looks at. last_active_at is a day
\* of the model: a user counts as active within the last day when the start
\* of that day is
RecentlyActive(now) ==
    {u \in Users : /\ users[u].last_active_at # -1
                   /\ users[u].last_active_at * HoursOfDay >= now - HoursOfDay}

\* the first entry of get_recent(user_id, days=1) in the session of the job,
\* which sees committed rows; 0 when there is none
LatestMood(u, now) ==
    LET entries == {m \in Visible(moods, 0) :
                       m.user_id = u /\ m.at >= now - HoursOfDay}
    IN  IF entries = {} THEN 0
        ELSE (CHOOSE m \in entries :
                  \A o \in entries : m.created_at >= o.created_at).id

\* proactive.py:224-245 should_followup_after_crisis
should_followup_after_crisis(u, now) ==
    LET latest == LatestMood(u, now)
    IN  /\ latest # 0
        /\ RowById(moods, latest).requires_attention
        /\ MinFollowupHours <= now - RowById(moods, latest).at
        /\ now - RowById(moods, latest).at <= MaxFollowupHours

\* the trigger fires, two hours after it fired last, and _run_crisis_followups
\* runs: every user it looks at whose latest mood entry asks for a follow-up
\* is sent one; a send that fails is logged and nothing else
RunCrisisFollowups(reached) ==
    /\ left.runs > 0
    /\ left' = [left EXCEPT !.runs = @ - 1]
    /\ clock' = clock + FollowupInterval
    /\ reached \subseteq {u \in RecentlyActive(clock') :
                             should_followup_after_crisis(u, clock')}
    /\ trace' = trace \cup
           {[kind |-> "followup", user |-> u, at |-> clock',
             n |-> Cardinality(TraceOf(u)), entry |-> LatestMood(u, clock')] :
                u \in reached}
    /\ UNCHANGED <<messages, memories, persons, events, moods, summaries, users,
                   subscriptions, next_id, admin_telegram_ids, today, task,
                   undo, alerts, turns, serial, skipped, memory_store,
                   payments>>

FollowupRun == [turns |-> MaxFollowupTurns, days |-> 0, moods |-> MaxFollowupTurns,
                extractions |-> 0, faults |-> 0, runs |-> MaxFollowupRuns]

InitFollowup == InitStore /\ serial = TRUE /\ left = FollowupRun

NextFollowup ==
    \/ \E t \in Tasks, u \in Users, text \in MessageTexts : HandleMessage(t, u, text)
    \/ \E t \in Tasks : DetectMoodNone(t)
    \/ \E t \in Tasks, mood_data \in MoodResults : DetectMood(t, mood_data)
    \/ \E t \in Tasks : ExtractNone(t)
    \/ \E t \in Tasks : Crisis(t, TRUE)
    \/ \E t \in Tasks : Reply(t, TRUE, TRUE)
    \/ \E t \in Tasks : SummarizeCheck(t)
    \/ \E t \in Tasks : SummaryCreate(t)
    \/ \E t \in Tasks : SummaryMark(t)
    \/ \E t \in Tasks : Commit(t)
    \/ \E reached \in SUBSET Users : RunCrisisFollowups(reached)

\* turns with and without a crisis, and runs of the follow-up job after them
SpecFollowup == InitFollowup /\ [][NextFollowup]_vars

----------------------------------------------------------------------------
(* PaymentService (app/services/payments.py).  A payment is created for a  *)
(* user and a plan; the provider reports on it with webhooks, which it may *)
(* deliver more than once.  One call of process_webhook, with the commit   *)
(* of its session, is one step.                                            *)

SubscriptionDays == 30
MaxPayments == 2
MaxWebhooks == 3
MaxPayDays == 1

PaidPlans == {"basic", "premium"}
WebhookEvents == {"payment.succeeded", "payment.canceled"}

\* PaymentRepository.get_by_external_id: the id of the row, 0 when there is
\* none (external_id is unique)
PaymentGetByExternalId(external_id) ==
    IF \E p \in payments : p.external_id = external_id
    THEN (CHOOSE p \in payments : p.external_id = external_id).id
    ELSE 0

\* PaymentRepository.mark_succeeded
mark_succeeded(payment_id) ==
    {IF p.id = payment_id THEN [p EXCEPT !.status = "succeeded"] ELSE p :
        p \in payments}

\* SubscriptionRepository.upgrade: the subscription of the user, created when
\* there is none, starts at the time of the call and runs for the duration
upgrade(sub, plan, duration_days, now) ==
    [plan |-> plan, status |-> "active", started_at |-> now,
     expires_at |-> now + duration_days]

\* create_payment (payments.py:29-105): a pending payment with the id the
\* provider gave it
CreatePayment(u, plan) ==
    /\ left.payments > 0
    /\ left' = [left EXCEPT !.payments = @ - 1]
    /\ payments' = payments \cup
           {[id |-> Cardinality(payments) + 1, user_id |-> u, plan |-> plan,
             status |-> "pending", external_id |-> Cardinality(payments) + 1]}
    /\ UNCHANGED <<messages, memories, persons, events, moods, summaries, users,
                   subscriptions, next_id, admin_telegram_ids, today, task,
                   undo, alerts, turns, serial, skipped, clock, memory_store,
                   trace>>

\* process_webhook (payments.py:111-161)
ProcessWebhook(event_type, external_id) ==
    /\ left.webhooks > 0
    /\ left' = [left EXCEPT !.webhooks = @ - 1]
    /\ LET payment == PaymentGetByExternalId(external_id)
       IN  IF event_type # "payment.succeeded" \/ payment = 0
           THEN UNCHANGED <<payments, subscriptions>>
           ELSE LET row == RowById(payments, payment)
                IN  /\ payments' = mark_succeeded(payment)
                    /\ subscriptions' =
                           [subscriptions EXCEPT ![row.user_id] =
                               upgrade(@, row.plan, SubscriptionDays, today)]
    /\ UNCHANGED <<messages, memories, persons, events, moods, summaries, users,
                   next_id, admin_telegram_ids, today, task, undo, alerts,
                   turns, serial, skipped, clock, memory_store, trace>>

PayRun == [turns |-> 0, days |-> MaxPayDays, moods |-> 0, extractions |-> 0,
           faults |-> 0, payments |-> MaxPayments, webhooks |-> MaxWebhooks]

InitPay == InitStore /\ serial = TRUE /\ left = PayRun

NextPay ==
    \/ \E u \in Users, plan \in PaidPlans : CreatePayment(u, plan)
    \/ \E event_type \in WebhookEvents, external_id \in 1..(MaxPayments + 1) :
           ProcessWebhook(event_type, external_id)
    \/ NextDay

\* payments and the webhooks that report on them
SpecPay == InitPay /\ [][NextPay]_vars

----------------------------------------------------------------------------
(* Properties.                                                             *)

\* the ranges of two summaries share a message id
Overlapping(a, b) ==
    \E i \in 1..next_id.messages :
        /\ a.from_message_id <= i /\ i <= a.to_message_id
        /\ b.from_message_id <= i /\ i <= b.to_message_id

\* the task is between the mood check of a turn and the end of its session
InTurn(t) ==
    task[t].pc \in {"mood", "extract", "crisis", "reply", "summarize_check",
                    "summarize", "mark", "commit", "raise"}

\* C1: for every user and every memory_key that is not null, at most one
\* Memory row of that user with that key has is_current = true.
OneCurrentMemoryPerKey ==
    \A a \in memories, b \in memories :
        ( /\ a.user_id = b.user_id
          /\ a.memory_key # "none"
          /\ a.memory_key = b.memory_key
          /\ a.is_current /\ b.is_current ) => a.id = b.id

\* C2: in a turn whose mood inference returned requires_attention = true,
\* _extract_all_memories is not invoked and the turn writes no Memory, Person
\* or LifeEvent row.
CrisisTurnSkipsExtraction ==
    \A t \in Tasks :
        task[t].requires_attention =>
            /\ ~task[t].extraction_invoked
            /\ {r \in memories \cup persons \cup events : r.tx = t} = {}
            /\ undo[t].memories = {} /\ undo[t].persons = {}

\* C3: when the handler of a turn has returned, exactly one crisis alert of
\* that turn exists if the mood inference returned requires_attention = true,
\* carrying the user and the indicators, and none exists otherwise.
OneNotificationPerCrisisTurn ==
    \A t \in Tasks :
        task[t].pc = "commit" =>
            LET mine == {a \in alerts : a.turn = task[t].turn}
            IN  IF task[t].requires_attention
                THEN /\ Cardinality(mine) = 1
                     /\ \A a \in mine : /\ a.user = task[t].user
                                        /\ a.indicators = task[t].attention_reason
                ELSE mine = {}

\* C4: every message with is_summarized = true is covered by a
\* ConversationSummary row of the same user: from_message_id <= id <=
\* to_message_id.
SummarizedIsCovered ==
    \A m \in messages :
        m.is_summarized =>
            \E s \in summaries : /\ s.user_id = m.user_id
                                 /\ s.from_message_id <= m.id
                                 /\ m.id <= s.to_message_id

\* C5: with the turns handled one at a time, no two ConversationSummary rows
\* of one user have intersecting ranges [from_message_id, to_message_id].
SummariesDisjoint ==
    \A a \in summaries, b \in summaries :
        (a.user_id = b.user_id /\ a.id # b.id) => ~Overlapping(a, b)

\* the summary the task has persisted in its turn
OwnSummaries(t) == {s \in summaries : s.tx = t /\ s.user_id = task[t].user}

\* C6: when two tasks handle messages of the same user at the same time and
\* both have persisted a summary, the ranges of the two summaries do not
\* intersect.
ConcurrentSummariesDisjoint ==
    \A t1 \in Tasks, t2 \in Tasks :
        (t1 # t2 /\ task[t1].user = task[t2].user) =>
            \A a \in OwnSummaries(t1), b \in OwnSummaries(t2) : ~Overlapping(a, b)

\* C7: no two tasks are at the same time inside a turn of the same user.
SameUserTurnsSerialized ==
    \A t1 \in Tasks, t2 \in Tasks :
        (t1 # t2 /\ InTurn(t1) /\ InTurn(t2)) => task[t1].user # task[t2].user

\* C8: when an extracted fact carries the memory_key of a current Memory row
\* of the user, the merge inserts no row with that key, and that row keeps
\* its id and has its previous text appended to its history.
CollidingFactUpdatesInPlace ==
    [][\A t \in Tasks, ex \in Extractions :
          ExtractAllMemories(t, ex) =>
              \A i \in DOMAIN ex.facts :
                  LET key == ex.facts[i].memory_key
                      old == {m \in CurrentMemories(memories, task[t].user, t) :
                                 m.memory_key = key}
                  IN  (key # "none" /\ old # {}) =>
                          /\ Ids({n \in memories' : n.user_id = task[t].user
                                                    /\ n.memory_key = key})
                               = Ids({m \in memories : m.user_id = task[t].user
                                                       /\ m.memory_key = key})
                          /\ \A m \in old : \E n \in memories' :
                                 /\ n.id = m.id
                                 /\ Len(n.history) > Len(m.history)
                                 /\ n.history[Len(m.history) + 1] = m.fact]_vars

\* C9: a merge leaves every Memory row that existed before it either as it
\* was or, when an update was applied to it, with the same id, the new fact
\* and a history that is the previous history followed by the previous fact.
UpdateAppendsHistory ==
    [][(\E t \in Tasks, ex \in Extractions : ExtractAllMemories(t, ex)) =>
          \A m \in memories : \E n \in memories' :
              /\ n.id = m.id
              /\ \/ n = m
                 \/ /\ n.fact # m.fact
                    /\ n = [m EXCEPT !.fact = n.fact,
                                     !.history = Append(m.history, m.fact)]]_vars

\* C10: a message of a free-tier user who is no admin is blocked when the
\* user's user-role messages of today number exactly the daily limit, and is
\* let through (its Message row is saved) when they number one less.
QuotaBoundary ==
    [][\A t \in Tasks :
          (task[t].pc = "idle" /\ task'[t].pc \in {"blocked", "mood"}) =>
              LET u == task'[t].user
                  n == get_messages_count_today(messages, u, today, t)
              IN  (u \notin admin_telegram_ids /\ subscriptions[u].plan = "free") =>
                      /\ n = free_messages_per_day =>
                             task'[t].pc = "blocked" /\ messages' = messages
                      /\ n = free_messages_per_day - 1 =>
                             /\ task'[t].pc = "mood"
                             /\ \E m \in messages' \ messages :
                                    m.user_id = u /\ m.role = "user"]_vars

\* a free-tier user who is no admin, blocked with exactly the daily limit of
\* messages stored today
QuotaBoundaryWitness ==
    \E t \in Tasks :
        /\ task[t].pc = "blocked"
        /\ task[t].user \notin admin_telegram_ids
        /\ subscriptions[task[t].user].plan = "free"
        /\ get_messages_count_today(messages, task[t].user, today, t)
               = free_messages_per_day

\* the task is in a turn that the quota check blocked
Blocked(t) == task[t].pc = "blocked" \/ task[t].reply = "limit"

\* C11: a step of a quota-blocked turn (the check, the notice, the end of the
\* handler) writes no Message, MoodEntry, Memory, Person, LifeEvent or
\* ConversationSummary row, leaves last_active_at of the user as it was, and
\* the turn has made no call to the completion service.
QuotaBlockedFrame ==
    [][\A t \in Tasks :
          (task'[t] # task[t] /\ (Blocked(t) \/ Blocked(t)'))
          => /\ UNCHANGED <<messages, moods, memories, persons, events, summaries>>
             /\ \A u \in Users : users'[u].last_active_at = users[u].last_active_at
             /\ task[t].called = {}
             /\ task'[t].called = {}]_vars

\* a blocked turn has answered with the notice and is about to return
QuotaBlockedFrameWitness ==
    \E t \in Tasks : task[t].pc = "commit" /\ task[t].reply = "limit"

\* C12: the limit /status reports is the free limit when the user has no
\* subscription, when the subscription is not active, or when its expires_at
\* is in the past, whatever its plan; otherwise it is the limit of its plan.
PlanLimitFallsBackToFree ==
    \A t \in Tasks :
        task[t].reply = "status" =>
            LET sub == subscriptions[task[t].user]
            IN  task[t].daily_limit =
                    IF \/ sub = NoSubscription
                       \/ sub.status # "active"
                       \/ (sub.expires_at # -1 /\ sub.expires_at < today)
                    THEN free_messages_per_day
                    ELSE CASE sub.plan = "free" -> free_messages_per_day
                           [] sub.plan = "basic" -> basic_messages_per_day
                           [] sub.plan = "premium" -> premium_messages_per_day

\* /status of a user whose active premium subscription ran out reports the
\* free limit
PlanLimitFallsBackToFreeWitness ==
    \E t \in Tasks :
        /\ task[t].reply = "status"
        /\ subscriptions[task[t].user].plan = "premium"
        /\ subscriptions[task[t].user].status = "active"
        /\ subscriptions[task[t].user].expires_at = 0
        /\ task[t].daily_limit = free_messages_per_day

\* context assembly failed in the turn of task t
ContextAssemblyFailed(t) ==
    "get_relevant_context" \in task[t].called /\ "get_response" \notin task[t].called

\* the mood inference of the turn of task t failed or returned unparseable
\* output
MoodInferenceFailed(t) ==
    "detect_mood" \in task[t].called /\ ~task[t].mood_detected

SummaryTakesOldestUnfolded ==
    \A older \in messages, newer \in messages :
        (/\ older.user_id = newer.user_id
         /\ older.id < newer.id
         /\ newer.is_summarized)
        => older.is_summarized

\* the trigger of memory.py:472-487 fires in the session of task t, whatever
\* get_recent returns
TriggerHolds(t) ==
    \A recent \in MessageGetRecent(messages, task[t].user,
                                    TriggerLimit(summaries, task[t].user, t), t) :
        should_summarize(recent, summaries, task[t].user, t)

\* C15: when create_summary gives up (the summarization call failed or
\* returned nothing; fewer messages than the minimum do not occur once the
\* trigger has fired) the step writes no ConversationSummary and flags no
\* message, and the trigger fires again at the end of the user's next turn.
SummarizeSkipKeepsBacklog ==
    [][\A t \in Tasks :
          /\ (task[t].pc \in {"summarize_check", "summarize"}
               /\ task'[t].pc = "commit")
              => UNCHANGED <<messages, summaries>>
          /\ (task'[t].pc = "summarize_check" /\ task'[t].user \in skipped')
              => TriggerHolds(t)']_vars

\* the turn after a skipped summarization is at its trigger
SummarizeSkipKeepsBacklogWitness ==
    \E t \in Tasks : task[t].pc = "summarize_check" /\ task[t].user \in skipped

\* the messages the trigger is about, as the session of task t sees them: all
\* messages of the user when the user has no summary, else those with an id
\* above the to_message_id of the latest summary
MessagesSinceSummary(t) ==
    LET u == task[t].user
        mine == {m \in Visible(messages, t) : m.user_id = u}
    IN  IF {s \in Visible(summaries, t) : s.user_id = u} = {} THEN mine
        ELSE {m \in mine : m.id > LastSummary(summaries, u, t).to_message_id}

\* the trigger was evaluated in the turn of task t and fired exactly when
\* the messages it is about are at least the threshold
TriggerDecidedByCount ==
    \A t \in Tasks :
        /\ task[t].pc = "summarize"
            => Cardinality(MessagesSinceSummary(t)) >= SUMMARY_THRESHOLD
        /\ (/\ task[t].pc = "commit"
            /\ "should_summarize" \in task[t].called
            /\ "summarize_conversation" \notin task[t].called)
            => Cardinality(MessagesSinceSummary(t)) < SUMMARY_THRESHOLD

\* C16: every turn in which a reply was recorded evaluates the trigger before
\* it ends, and the trigger fires exactly when the count is at least the
\* threshold.
TriggerAfterEveryReply ==
    /\ \A t \in Tasks :
           (task[t].pc = "commit"
            /\ task[t].reply \in {"generated", "fallback", "crisis"})
           => "should_summarize" \in task[t].called
    /\ TriggerDecidedByCount

\* C17: a step of the check-in job that reaches user u and sets the user's
\* last_active_at is taken only while no conversation turn of u is in
\* progress.
JobsHoldUserExclusion ==
    [][\A u \in Users :
          (task' = task /\ users'[u].last_active_at # users[u].last_active_at)
          => \A t \in Tasks : task[t].user # u]_vars

\* the ids of the rows of a table that the session of task t has inserted
Written(rows, t) == {r.id : r \in {x \in rows : x.tx = t}}

\* C18: when the delivery of the reply of a turn fails, the Message,
\* MoodEntry, Memory, Person and LifeEvent rows the turn has written are
\* still in the store after the handler has ended.
RecordsSurviveFailedDelivery ==
    [][\A t \in Tasks :
          (/\ task[t].pc = "raise"
           /\ task[t].reply \in {"generated", "fallback", "crisis"}
           /\ task'[t].pc = "idle")
          => /\ Written(messages, t) \subseteq Ids(messages')
             /\ Written(moods, t) \subseteq Ids(moods')
             /\ Written(memories, t) \subseteq Ids(memories')
             /\ Written(persons, t) \subseteq Ids(persons')
             /\ Written(events, t) \subseteq Ids(events')]_vars

\* C19: a turn in which context assembly or response generation failed does
\* not raise: the user's message and a fallback reply are stored in its
\* session and the handler goes on to its end.
FailedStepDegradesToFallback ==
    \A t \in Tasks :
        (ContextAssemblyFailed(t)
         \/ (task[t].reply = "fallback" /\ task[t].pc # "raise"))
        => /\ task[t].pc # "raise"
           /\ task[t].reply = "fallback"
           /\ \E m \in messages :
                  m.tx = t /\ m.role = "user" /\ m.user_id = task[t].user
           /\ \E m \in messages :
                  m.tx = t /\ m.role = "assistant" /\ m.user_id = task[t].user

\* C20: in a crisis turn neither context assembly nor get_response is
\* performed, and once the handler has replied the assistant message the
\* turn has stored and the text it has sent are the fixed crisis response.
CrisisTurnGetsFixedReply ==
    \A t \in Tasks :
        task[t].requires_attention =>
            /\ task[t].called \cap {"get_relevant_context", "get_response"} = {}
            /\ task[t].pc \in {"extract", "crisis", "commit", "raise"}
            /\ task[t].pc \in {"commit", "raise"} =>
                   /\ task[t].reply = get_crisis_response
                   /\ {m.content : m \in {x \in messages :
                                              x.tx = t /\ x.role = "assistant"}}
                          = {get_crisis_response}

\* a crisis turn has stored and sent its reply
CrisisTurnGetsFixedReplyWitness ==
    \E t \in Tasks :
        /\ task[t].requires_attention
        /\ task[t].pc = "commit"
        /\ \E m \in messages : m.tx = t /\ m.content = get_crisis_response

\* C21: when a person of the extraction is handled, either some active
\* person of the user has a name that contains the extracted name (case
\* ignored), and then no row is inserted and only a first such person may
\* change, or there is none and exactly one active person of that name is
\* inserted.
PersonMatchedOrInserted ==
    [][\A t \in Tasks, p \in PersonItems :
          MergePerson(t, p) =>
              LET u == task[t].user
                  matching == {r \in Visible(persons, t) :
                                  /\ r.user_id = u /\ r.is_active
                                  /\ Contains(ToLower(r.name), ToLower(p.name))}
              IN  IF matching # {}
                  THEN /\ Ids(persons') = Ids(persons)
                       /\ \E r \in matching :
                              /\ \A o \in matching : r.created_at >= o.created_at
                              /\ \A o \in persons : o.id # r.id => o \in persons'
                  ELSE /\ persons \subseteq persons'
                       /\ Cardinality(persons' \ persons) = 1
                       /\ \A n \in persons' \ persons :
                              n.is_active /\ n.user_id = u /\ n.name = p.name]_vars

\* two persons were handled, the second matched the first
PersonMatchedOrInsertedWitness ==
    \E t \in Tasks :
        /\ task[t].pc = "persons"
        /\ task[t].counts.persons = 2
        /\ Cardinality(persons) = 1

\* C22: when a person of the extraction matches an existing person, the
\* stored notes change only to the extracted notes and only when these are
\* given, and the stored emotional_tone changes only to the extracted tone
\* and only when the item carries one (it is neither absent nor null).
PersonMergeKeepsUnsetFields ==
    [][\A t \in Tasks, p \in PersonItems :
          MergePerson(t, p) /\ Ids(persons') = Ids(persons) =>
              \A r \in persons :
                  LET n == RowById(persons', r.id)
                  IN  /\ n.notes # r.notes => p.notes # NoText /\ n.notes = p.notes
                      /\ n.emotional_tone # r.emotional_tone =>
                             /\ p.emotional_tone \notin {"absent", "null"}
                             /\ n.emotional_tone = p.emotional_tone]_vars

\* C23: an event of the extraction (every event item has a title) inserts
\* exactly one LifeEvent of the user; its event_date is the item's date when
\* that is a calendar date in the format and null otherwise; its
\* related_person_id is null when no active person of the user matches the
\* item's related_person, and otherwise the id of such a person.
EventInsertedOnce ==
    [][\A t \in Tasks, e \in EventItems :
          MergeEvent(t, e) =>
              LET u == task[t].user
                  matching == {r \in Visible(persons, t) :
                                  /\ r.user_id = u /\ r.is_active
                                  /\ e.related_person # NoText
                                  /\ Contains(ToLower(r.name),
                                              ToLower(e.related_person))}
              IN  /\ events \subseteq events'
                  /\ Cardinality(events' \ events) = 1
                  /\ \A n \in events' \ events :
                         /\ n.user_id = u /\ n.title = e.title
                         /\ n.event_date =
                                IF StrptimeOk(e.event_date) THEN e.event_date
                                ELSE NoText
                         /\ matching = {} => n.related_person_id = 0
                         /\ n.related_person_id # 0 =>
                                \E r \in matching : r.id = n.related_person_id
                  /\ task'[t].counts.events = task[t].counts.events + 1]_vars

\* an event with a date that is no calendar date and a related person that
\* matched was stored with a null date and the person's id, and an event with
\* a calendar date and a related person that matched nobody with a null id
EventInsertedOnceWitness ==
    \E t \in Tasks, n \in events, o \in events, r \in persons :
        /\ task[t].pc = "events"
        /\ n.tx = t /\ n.event_date = NoText
        /\ n.related_person_id = r.id /\ r.user_id = n.user_id
        /\ o.tx = t /\ o.event_date = <<2025, 3, 1>> /\ o.related_person_id = 0

\* C24: an update of the extraction whose memory_key, when given, is the key
\* of no current fact of the user and whose old_fact_contains, when given, is
\* contained in no current fact of the user changes no Memory row and no
\* other row and is not counted; the loop over the updates goes on.
UnmatchedUpdateIsSkipped ==
    [][\A t \in Tasks, up \in UpdateItems :
          LET cur == CurrentMemories(memories, task[t].user, t)
          IN  /\ MergeUpdate(t, up)
              /\ up.memory_key # "none" =>
                     \A m \in cur : m.memory_key # up.memory_key
              /\ up.old_fact_contains # NoText =>
                     \A m \in cur : ~Contains(ToLower(m.fact),
                                              ToLower(up.old_fact_contains))
              => /\ UNCHANGED <<memories, persons, events, users, messages, undo>>
                 /\ task'[t].counts = task[t].counts
                 /\ task'[t].pc = "updates"]_vars

\* an update that found nothing by key and nothing by text has been handled,
\* nothing is counted, and a fact that the next update can correct is there
UnmatchedUpdateIsSkippedWitness ==
    \E t \in Tasks :
        /\ task[t].pc = "updates"
        /\ "search_by_text" \in task[t].called
        /\ task[t].counts.updates = 0
        /\ left.items > 0
        /\ \E m \in CurrentMemories(memories, task[t].user, t) :
               m.memory_key = "job"

\* C25: an item of the extraction that fails does not disturb the rest of the
\* merge: the rows written so far in the turn stay, the counts stay, and the
\* turn goes on with the next item.
FailedItemIsContained ==
    [][\A t \in Tasks :
          MergeMalformed(t) \/ MergeRejected(t) =>
              /\ UNCHANGED <<messages, memories, persons, events, moods, users>>
              /\ task'[t].counts = task[t].counts
              /\ task'[t].pc = task[t].pc]_vars

\* C26: the relevant memories of the context payload are the current facts
\* of the user with a tag among the keywords of the message together with
\* the current facts of the user whose text contains the message.
RelevantIsTagAndTextUnion ==
    [][\A t \in Tasks, current_message \in ContextTexts :
          GetRelevantContext(t, current_message) =>
              task'[t].relevant_memories =
                  Ids(search_by_tags(memories, task[t].user,
                                     ExtractKeywords(current_message), t)
                      \cup search_by_text(memories, task[t].user,
                                          current_message, t))]_vars

\* C27: the context assembly changes nothing but last_accessed_at of Memory
\* rows, and it sets last_accessed_at on the facts found by the tag search
\* or by the text search for the message, and on no other, whatever the
\* message is.
AccessMarkIsOnlyEffect ==
    [][\A t \in Tasks, current_message \in ContextTexts :
          GetRelevantContext(t, current_message) =>
              LET matched == Ids(search_by_tags(memories, task[t].user,
                                     ExtractKeywords(current_message), t)
                                 \cup search_by_text(memories, task[t].user,
                                                     current_message, t))
              IN  /\ UNCHANGED <<messages, persons, events, moods, summaries,
                                 users, subscriptions>>
                  /\ Ids(memories') = Ids(memories)
                  /\ \A m \in memories :
                         LET n == RowById(memories', m.id)
                         IN  /\ [n EXCEPT !.last_accessed_at = m.last_accessed_at] = m
                             /\ n.last_accessed_at =
                                    IF m.id \in matched THEN task[t].turn
                                    ELSE m.last_accessed_at]_vars

\* C28: a pass of the loop of _make_request never makes more than
\* max_retries posts; it leaves the request running, returned, or raised
\* with ClaudeAPIError and nothing else; and when it goes on to another
\* attempt it has slept 2 ** attempt seconds after a 5xx response, a timeout
\* or a request error, and the retry-after of the response, when it has
\* one, after a 429.
RequestEndsInResponseOrApiError ==
    [][\A t \in Tasks, r \in Responses :
          Post(t, r) =>
              LET q == task[t].request
                  n == task'[t].request
              IN  /\ n.attempt <= max_retries
                  /\ task'[t].pc \in {"post", "returned", "raised"}
                  /\ task'[t].pc = "raised" => n.raised = "ClaudeAPIError"
                  /\ task'[t].pc = "post" /\ r.status = 429 /\ r.retry_after # -1 =>
                         n.waited = Append(q.waited, r.retry_after)
                  /\ task'[t].pc = "post" /\ r.status # 429 =>
                         n.waited = Append(q.waited, Pow2(q.attempt))]_vars

\* the days from a day to the next day of the calendar with the month and
\* the day of a date; -1 when the date string is no date
NextOccurrence(d, day) ==
    LET distances == {Ordinal(<<y, d[2], d[3]>>) - day :
                         y \in {x \in 2026..2036 : StrptimeOk(<<x, d[2], d[3]>>)}}
    IN  IF ~StrptimeOk(d) THEN -1
        ELSE CHOOSE n \in distances :
                 n >= 0 /\ \A o \in distances : o >= 0 => n <= o

\* C29: the list get_upcoming_dates returns has one entry for every item of
\* the important dates of an active person of the user whose next occurrence
\* is 0 to 14 days after today and no other entry, days_until of an entry is
\* the distance to that occurrence, and the list ascends in days_until.
UpcomingDatesAreNextOccurrences ==
    \A t \in Tasks :
        task[t].pc = "dates" =>
            LET res == task[t].upcoming
                items == {x \in persons \X (1..2) :
                             /\ x[1].user_id = task[t].user /\ x[1].is_active
                             /\ x[2] \in DOMAIN x[1].important_dates}
                due == {x \in items :
                           NextOccurrence(x[1].important_dates[x[2]].date, today)
                               \in 0..14}
            IN  /\ \A i, j \in DOMAIN res :
                       i < j => res[i].days_until <= res[j].days_until
                /\ Len(res) = Cardinality(due)
                /\ {[person_name |-> e.person_name, date_type |-> e.date_type,
                     days_until |-> e.days_until] : e \in SeqToSet(res)}
                   = {[person_name |-> x[1].name,
                       date_type |-> x[1].important_dates[x[2]].date_type,
                       days_until |->
                           NextOccurrence(x[1].important_dates[x[2]].date, today)] :
                         x \in due}

\* a birthday five days ahead and an anniversary that falls in the next year
\* are in the list
UpcomingDatesAreNextOccurrencesWitness ==
    \E t \in Tasks :
        /\ task[t].pc = "dates"
        /\ \E i, j \in DOMAIN task[t].upcoming :
               /\ task[t].upcoming[i].date_type = "birthday"
               /\ task[t].upcoming[i].days_until = 5
               /\ i < j
               /\ task[t].upcoming[j].date[1] = YearOf(today) + 1

\* C30: a step never removes a committed Message or changes the role, the
\* content or the user of a Message, never takes is_summarized from true to
\* false, and never removes a committed MoodEntry or changes a MoodEntry.
StoredRowsAreAppendOnly ==
    [][/\ \A m \in messages :
              /\ m.tx = 0 => \E n \in messages' : n.id = m.id
              /\ \A n \in messages' :
                     n.id = m.id =>
                         /\ n.role = m.role /\ n.content = m.content
                         /\ n.user_id = m.user_id
                         /\ m.is_summarized => n.is_summarized
       /\ \A e \in moods :
              /\ e.tx = 0 => \E n \in moods' : n.id = e.id
              /\ \A n \in moods' :
                     n.id = e.id => [n EXCEPT !.tx = e.tx] = e]_vars

\* a committed message has been flagged as summarized, a mood entry is
\* committed, and a later turn is under way
StoredRowsAreAppendOnlyWitness ==
    /\ \E m \in messages : m.tx = 0 /\ m.is_summarized
    /\ \E e \in moods : e.tx = 0
    /\ \E t \in Tasks : task[t].pc # "idle"

\* C31: the step that records the reply of a turn and delivers it, be it a
\* generated reply or the crisis response, leaves last_active_at of the user
\* at the current day, and the notice of a blocked turn leaves last_active_at
\* as it was.
SuccessfulTurnUpdatesLastActive ==
    [][\A t \in Tasks :
          /\ task[t].reply = "none" /\ task'[t].pc \notin {"raise", "idle"}
             /\ task'[t].reply \in {"generated", get_crisis_response}
             => users'[task[t].user].last_active_at = today
          /\ task[t].pc = "blocked" /\ task'[t].reply = "limit"
             => users'[task[t].user].last_active_at
                    = users[task[t].user].last_active_at]_vars

\* the messages of the user handed to the handler in the 60 seconds that end
\* at the given time
PassedInWindow(u, end) ==
    {r \in TraceOf(u) : r.kind = "passed" /\ end - RateWindow < r.at /\ r.at <= end}

\* C32: every 60-second window holds at most rate_limit messages of a user that
\* were handed to the handler, and a message that arrives when the window
\* already holds rate_limit of them gets the notice, is not handed over and is
\* not recorded in the store.
WindowPassesAtMostRateLimit ==
    /\ [](\A u \in Users : \A end \in 0..clock :
              Cardinality(PassedInWindow(u, end)) <= rate_limit)
    /\ [][\A u \in Users :
              /\ TraceOf(u)' # TraceOf(u)
              /\ Cardinality(PassedInWindow(u, clock)) >= rate_limit
              => /\ \E r \in TraceOf(u)' \ TraceOf(u) : r.kind = "notice"
                 /\ \A r \in TraceOf(u)' \ TraceOf(u) : r.kind # "passed"
                 /\ Len(memory_store'[u]) <= Len(memory_store[u])
                 /\ \A i \in 1..Len(memory_store'[u]) :
                        \E j \in 1..Len(memory_store[u]) :
                            memory_store'[u][i] = memory_store[u][j]]_vars

\* a user was limited in a full window and passed again once the window moved
WindowPassesAtMostRateLimitWitness ==
    \E u \in Users :
        /\ \E r \in TraceOf(u) : r.kind = "notice"
        /\ \E r \in TraceOf(u) : r.kind = "passed" /\ r.n >= rate_limit + 1

\* the request of the task made max_retries attempts and every one of them
\* was answered with a status of the set
EveryAttemptAnswered(t, statuses) ==
    LET q == task[t].request
    IN  /\ Len(q.statuses) = max_retries
        /\ \A i \in 1..max_retries : q.statuses[i] \in statuses

\* C33: when every attempt of the request was answered with 429 the exception
\* that reaches handle_message carries 429 and the user gets the rate-limit
\* fallback, and when every attempt was answered with a 5xx status it carries
\* that status and the user gets the server-error fallback.
ExhaustedRetriesKeepStatus ==
    \A t \in Tasks :
        task[t].pc = "answered" =>
            /\ EveryAttemptAnswered(t, {429}) =>
                   /\ task[t].request.status_code = 429
                   /\ task[t].reply = "rate_limit_fallback"
            /\ EveryAttemptAnswered(t, {500}) =>
                   /\ task[t].request.status_code = 500
                   /\ task[t].reply = "server_error_fallback"

\* C34: a 4xx response other than 429 ends the request in the pass that got
\* it: ClaudeAPIError is raised with the status of the response and retryable
\* false, nothing was slept for it and no other attempt follows.
ClientErrorIsNotRetried ==
    [][\A t \in Tasks, r \in Responses :
          /\ Post(t, r)
          /\ r.kind = "response" /\ r.status >= 400 /\ r.status < 500
          /\ r.status # 429
          => LET q == task[t].request
                 n == task'[t].request
             IN  /\ task'[t].pc = "raised"
                 /\ n.attempt = q.attempt + 1
                 /\ n.waited = q.waited
                 /\ n.raised = "ClaudeAPIError"
                 /\ n.status_code = r.status
                 /\ n.retryable = FALSE]_vars

\* the part of C34 that holds for every body: no sleep and no other attempt
ClientErrorEndsRequest ==
    [][\A t \in Tasks, r \in Responses :
          /\ Post(t, r)
          /\ r.kind = "response" /\ r.status >= 400 /\ r.status < 500
          /\ r.status # 429
          => /\ task'[t].pc = "raised"
             /\ task'[t].request.waited = task[t].request.waited
             /\ task'[t].request.retryable = FALSE
             /\ task'[t].request.raised = "ClaudeAPIError"
                    => task'[t].request.status_code = r.status]_vars

\* the check-ins sent to the user
Checkins(u) == {r \in TraceOf(u) : r.kind = "checkin"}

KeyedUpdateIsApplied ==
    [][\A t \in Tasks, up \in UpdateItems :
          /\ MergeUpdate(t, up)
          /\ up.memory_key # "none"
          /\ \E m \in CurrentMemories(memories, task[t].user, t) :
                 m.memory_key = up.memory_key
          => /\ \E m \in CurrentMemories(memories', task[t].user, t) :
                    m.memory_key = up.memory_key /\ m.fact = up.new_fact
             /\ task'[t].counts.updates = task[t].counts.updates + 1]_vars

\* the committed messages of the user with role "user" stored for the day
UserMessagesOfDay(u, day) ==
    {m \in messages : m.tx = 0 /\ m.user_id = u /\ m.role = "user" /\ m.day = day}

\* C37: a user who is no admin never has more user-role messages stored for
\* the current day than the daily limit of the plan.
DailyLimitBoundsStoredMessages ==
    \A u \in Users \ admin_telegram_ids :
        Cardinality(UserMessagesOfDay(u, today))
            <= get_plan_limit(subscriptions[u], today)

\* the mood entry the turn of the task stored
OwnMood(t) ==
    {m \in moods : m.user_id = task[t].user /\ m.created_at = task[t].turn}

\* C40: in a turn that is no crisis turn and whose mood inference succeeded,
\* current_mood of the payload is the mood score, the primary emotion and the
\* emotional need of the entry stored for the message of this turn.
CurrentMoodIsOfThisTurn ==
    \A t \in Tasks :
        /\ task[t].pc = "summarize_check"
        /\ task[t].mood_detected /\ ~task[t].requires_attention
        => \E m \in OwnMood(t) :
               task[t].current_mood =
                   [mood_score |-> m.mood_score,
                    primary_emotion |-> m.primary_emotion,
                    emotional_need |-> m.emotional_need]

\* the follow-ups sent for a mood entry
Followups(id) == {r \in trace : r.kind = "followup" /\ r.entry = id}

\* C38: over all runs of the follow-up job, at most one follow-up is sent for
\* one crisis mood entry.
OneFollowupPerCrisisEntry ==
    \A m \in moods : m.requires_attention => Cardinality(Followups(m.id)) <= 1

\* C39: a payment.succeeded webhook for a payment that a webhook has marked
\* succeeded before changes neither the payments nor the subscription of the
\* user (plan, status, started_at, expires_at).
WebhookReplayChangesNothing ==
    [][\A external_id \in 1..MaxPayments :
          /\ ProcessWebhook("payment.succeeded", external_id)
          /\ \E p \in payments :
                 p.external_id = external_id /\ p.status = "succeeded"
          => UNCHANGED <<payments, subscriptions>>]_vars

====
